---------------------------- MODULE Spec2Model ----------------------------
(***************************************************************************)
(* Model of cryptxspider: the Risk Aggregation Engine                      *)
(* (analyzer/scam_detector.py) and the Fetch Orchestrator                  *)
(* (memepad/parser.py).                                                    *)
(*                                                                         *)
(* Scores are floats in the source.  Every score the code produces is a    *)
(* multiple of 0.05 and every mean is taken over 4 or 5 of them, so a      *)
(* score s is held exactly as the integer s * 10000 (Pct(95) is 0.95).     *)
(* Python values whose type varies (None, list, dict, str) carry a tag t.  *)
(* A str is a sequence of one-character strings; a non-ASCII character is  *)
(* written by its code point ("u0431").                                    *)
(***************************************************************************)
EXTENDS Integers, Sequences, FiniteSets, TLC

VARIABLES
    jetton_data,    \* the token profile handed to analyze_jetton
    nlp_pipeline,   \* ScamAnalyzer.nlp_pipeline: None or the sentiment pipeline
    now,            \* datetime.utcnow(), in whole days
    result,         \* what the last analyze_jetton call returned or raised
    assessed_at,    \* the day that call ran on
    holders_in,     \* the holder list handed to analyze_holders on its own
    holders_out,    \* what that analyze_holders call returned
    fetch_kind,     \* the orchestration in progress: "complete" or "all"
    tasks,          \* the gathered fetch coroutines, in declaration order
    completed,      \* the positions of the coroutines that have returned, in completion order
    gathered,       \* what the orchestration returned to its caller
    channels,       \* the telegram_channel table, by username
    active_channels,\* TelegramSpider.active_channels, the working set
    client,         \* whether TelegramSpider.client is set (connected)
    potential_tokens, \* the potential_token table, by name
    alerts,         \* the names the "new potential token" alert went out for
    mentions_seen,  \* per name, the messages handed to _process_message that mention it
    last_call,      \* the last spider operation: what it asked of the provider
    calls,          \* the operations main_loop has run since setup
    channel_alerts, \* the usernames the "new channel" alert went out for
    notification_bot, \* whether the last discover_new_channels was handed a notification bot
    links_in,       \* the text handed to _extract_channel_links on its own
    links_out,      \* what that call and a second call on the same text returned
    loop,           \* the top-level loop running: "main_loop" or "monitor_channels"
    pc,             \* the step of its cycle the loop is at
    cycle,          \* the cycles the loop has begun
    cycle_log,      \* the steps of the current cycle taken so far, each with what it logged
    asleep,         \* the seconds of the loop's last asyncio.sleep
    coroutine,      \* the spider coroutine followed request by request: where it is suspended
    in_flight,      \* the requests handed to the Telegram client and not yet answered
    polling         \* the bot's polling task: waiting for an update or handling one

analyzerVars == <<jetton_data, nlp_pipeline, now, result, assessed_at>>
holdersVars == <<holders_in, holders_out>>
fetchVars == <<fetch_kind, tasks, completed, gathered>>
crawlVars == <<channels, active_channels, client, potential_tokens, alerts, mentions_seen,
               last_call, calls, channel_alerts, notification_bot>>
linkVars == <<links_in, links_out>>
loopVars == <<loop, pc, cycle, cycle_log, asleep>>
sweepVars == <<coroutine, in_flight, polling>>
stepVars == <<linkVars, loopVars, sweepVars>>
vars == <<jetton_data, nlp_pipeline, now, result, assessed_at, holders_in, holders_out,
          fetch_kind, tasks, completed, gathered,
          channels, active_channels, client, potential_tokens, alerts, mentions_seen,
          last_call, calls, channel_alerts, notification_bot,
          links_in, links_out, loop, pc, cycle, cycle_log, asleep, coroutine, in_flight,
          polling>>

-----------------------------------------------------------------------------
(* Python values *)

None == [t |-> "None"]
PyList(s) == [t |-> "list", v |-> s]
PyDict(r) == [t |-> "dict", v |-> r]
PyStr(s) == [t |-> "str", v |-> s]
EmptyDict == PyDict(<<>>)

\* bool(x): None, [], {} and "" are falsy
Truthy(x) ==
    CASE x.t = "None" -> FALSE
      [] x.t = "list" -> Len(x.v) > 0
      [] x.t = "str"  -> Len(x.v) > 0
      [] x.t = "dict" -> DOMAIN x.v # {}
      [] OTHER -> TRUE

\* dict.get(k, default) on the fields r of a dict
Get(r, k, default) == IF k \in DOMAIN r THEN r[k] ELSE default

\* the values of a function or sequence
Range(f) == { f[i] : i \in DOMAIN f }

Max(a, b) == IF a >= b THEN a ELSE b
Min(a, b) == IF a <= b THEN a ELSE b

\* the float n/100, held as an integer number of 1/10000
Pct(n) == n * 100

RECURSIVE SumSeq(_)
SumSeq(s) == IF Len(s) = 0 THEN 0 ELSE s[1] + SumSeq(Tail(s))

RECURSIVE Concat(_)
Concat(ss) == IF Len(ss) = 0 THEN <<>> ELSE ss[1] \o Concat(Tail(ss))

-----------------------------------------------------------------------------
(* str.lower() and the substring test `a in b`, on lowered text *)

UpperChars ==
    <<"A", "B", "C", "D", "E", "F", "G", "H", "I", "J", "K", "L", "M",
      "N", "O", "P", "Q", "R", "S", "T", "U", "V", "W", "X", "Y", "Z">>
LowerChars ==
    <<"a", "b", "c", "d", "e", "f", "g", "h", "i", "j", "k", "l", "m",
      "n", "o", "p", "q", "r", "s", "t", "u", "v", "w", "x", "y", "z">>

UpperSet == { UpperChars[i] : i \in 1..Len(UpperChars) }
LowerMap == [c \in UpperSet |-> LowerChars[CHOOSE i \in 1..Len(UpperChars) : UpperChars[i] = c]]

LowerChar(c) == IF c \in UpperSet THEN LowerMap[c] ELSE c

\* needle.lower() in hay.lower()
ContainsLower(hay, needle) ==
    \E i \in 0..(Len(hay) - Len(needle)) :
        \A j \in 1..Len(needle) : LowerChar(hay[i + j]) = LowerChar(needle[j])

-----------------------------------------------------------------------------
(* config.py *)

SCAM_THRESHOLD == Pct(75)
MIN_CHANNEL_AGE_DAYS == 14

SCAM_PATTERNS ==
  << <<"(", "?", "i", ")", "1", "0", "0", "x">>,
     <<"(", "?", "i", ")", "1", "0", "0", "0", "x">>,
     <<"g", "u", "a", "r", "a", "n", "t", "e", "e", "d", ".", "{", "0", ",", "2", "0", "}", "p", "r", "o", "f", "i", "t">>,
     <<"u0431", "u0435", "u0437", ".", "{", "0", ",", "1", "0", "}", "u0440", "u0438", "u0441", "u043a", "u0430">>,
     <<"w", "i", "t", "h", "o", "u", "t", ".", "{", "0", ",", "1", "0", "}", "r", "i", "s", "k">>,
     <<"(", "?", "i", ")", "p", "u", "m", "p", ".", "{", "0", ",", "5", "}", "d", "u", "m", "p">>,
     <<"(", "?", "i", ")", "u0441", "u043a", "u0430", "u043c">>,
     <<"(", "?", "i", ")", "s", "c", "a", "m", ".", "{", "0", ",", "5", "}", "a", "l", "e", "r", "t">> >>

\* `pattern.lower() in text.lower()`: a substring test on the pattern's source text
PatternIn(p, text) == ContainsLower(text, SCAM_PATTERNS[p])

-----------------------------------------------------------------------------
(* ScamAnalyzer.check_fake_channel *)

\* the reasons one description adds: one per pattern it contains, in list order
RECURSIVE DescriptionRisks(_, _)
DescriptionRisks(text, p) ==
    IF p > Len(SCAM_PATTERNS) THEN <<>>
    ELSE (IF PatternIn(p, text) THEN << <<"channel_description_contains", p>> >> ELSE <<>>)
         \o DescriptionRisks(text, p + 1)

\* datetime.fromisoformat(created_at) and the age test; ValueError and TypeError
\* are swallowed
CreatedAtRisks(created_at, today) ==
    IF created_at.t = "iso" /\ today - created_at.day < MIN_CHANNEL_AGE_DAYS
    THEN << <<"channel_created_recently", today - created_at.day>> >>
    ELSE <<>>

SocialRisks(social, today) ==
    IF Get(social, "type", None) = PyStr(<<"T", "E", "L", "E", "G", "R", "A", "M">>)
    THEN (IF Truthy(Get(social, "description", None))
          THEN DescriptionRisks(Get(social, "description", PyStr(<<>>)).v, 1)
          ELSE <<>>)
         \o (IF Truthy(Get(social, "created_at", None))
             THEN CreatedAtRisks(Get(social, "created_at", None), today)
             ELSE <<>>)
    ELSE <<>>

\* socials is a list here; iterating None raises (see analyze_jetton)
check_fake_channel(socials, today) ==
    LET risk_factors == Concat([i \in 1..Len(socials.v) |-> SocialRisks(socials.v[i], today)])
    IN  [is_fake |-> Len(risk_factors) > 0, risk_factors |-> risk_factors]

-----------------------------------------------------------------------------
(* ScamAnalyzer.analyze_holders *)

Percent(holder) == Get(holder, "percent", 0)

\* the top-holder test on holders[0]
TopHolderRisk(h) ==
    IF Percent(h[1]) > 50
    THEN [score |-> Pct(95), factors |-> << <<"one_address_over_50", Percent(h[1])>> >>]
    ELSE IF Percent(h[1]) > 30
    THEN [score |-> Pct(70), factors |-> << <<"one_address_over_30", Percent(h[1])>> >>]
    ELSE [score |-> 0, factors |-> <<>>]

\* mutant: the holder-count test assigns 0.6 instead of taking the maximum
HolderCountRiskAssigns(risk_score, h) ==
    IF Len(h) < 10
    THEN [score |-> Pct(60), factors |-> << <<"few_holders", Len(h)>> >>]
    ELSE [score |-> risk_score, factors |-> <<>>]

\* the holder-count test
HolderCountRisk(risk_score, h) ==
    IF Len(h) < 10
    THEN [score |-> Max(risk_score, Pct(60)), factors |-> << <<"few_holders", Len(h)>> >>]
    ELSE [score |-> risk_score, factors |-> <<>>]

\* sum(holder.get("percent", 0) for holder in holders[:5])
Top5Percent(h) == SumSeq([i \in 1..Min(5, Len(h)) |-> Percent(h[i])])

\* mutant: the top-5 test adds 0.8 instead of taking the maximum
Top5RiskAdds(risk_score, h) ==
    IF Top5Percent(h) > 90
    THEN [score |-> risk_score + Pct(80), factors |-> << <<"top5_hold", Top5Percent(h)>> >>]
    ELSE [score |-> risk_score, factors |-> <<>>]

\* the top-5 test
Top5Risk(risk_score, h) ==
    IF Top5Percent(h) > 90
    THEN [score |-> Max(risk_score, Pct(80)), factors |-> << <<"top5_hold", Top5Percent(h)>> >>]
    ELSE [score |-> risk_score, factors |-> <<>>]

analyze_holders(holders) ==
    IF ~Truthy(holders)
    THEN [score |-> Pct(50), factors |-> << <<"no_holder_data">> >>]
    ELSE LET top == TopHolderRisk(holders.v)
             cnt == HolderCountRisk(top.score, holders.v)
             t5  == Top5Risk(cnt.score, holders.v)
         IN  [score |-> t5.score, factors |-> top.factors \o cnt.factors \o t5.factors]

-----------------------------------------------------------------------------
(* ScamAnalyzer.analyze_liquidity *)

\* stonfi_data.get("liquidity", {}).get("usd", 0)
LiquidityUsd(stonfi_data) == Get(Get(stonfi_data.v, "liquidity", EmptyDict).v, "usd", 0)

LiquidityRisk(liquidity) ==
    IF liquidity < 1000
    THEN [score |-> Pct(80), factors |-> << <<"extremely_low_liquidity", liquidity>> >>]
    ELSE IF liquidity < 5000
    THEN [score |-> Pct(50), factors |-> << <<"low_liquidity", liquidity>> >>]
    ELSE [score |-> 0, factors |-> <<>>]

\* mutant: only None counts as absent (`is None` for `not`), so {} is scored
AnalyzeLiquidityNoneOnly(stonfi_data) ==
    IF stonfi_data.t = "None"
    THEN [score |-> Pct(50), factors |-> << <<"no_liquidity_data">> >>]
    ELSE LiquidityRisk(LiquidityUsd(stonfi_data))

analyze_liquidity(stonfi_data) ==
    IF ~Truthy(stonfi_data)
    THEN [score |-> Pct(50), factors |-> << <<"no_liquidity_data">> >>]
    ELSE LiquidityRisk(LiquidityUsd(stonfi_data))

-----------------------------------------------------------------------------
(* ScamAnalyzer.analyze_transactions *)

analyze_transactions(transactions) ==
    IF ~Truthy(transactions)
    THEN [score |-> Pct(50), factors |-> << <<"no_transaction_data">> >>]
    ELSE IF Len(transactions.v) < 5
    THEN [score |-> Pct(60), factors |-> << <<"very_few_transactions", Len(transactions.v)>> >>]
    ELSE [score |-> 0, factors |-> <<>>]

-----------------------------------------------------------------------------
(* ScamAnalyzer.analyze_description *)

\* the pattern loop: the first pattern contained in the text scores 0.7 and breaks
FirstPattern(text) ==
    IF \E p \in 1..Len(SCAM_PATTERNS) : PatternIn(p, text)
    THEN CHOOSE p \in 1..Len(SCAM_PATTERNS) :
             PatternIn(p, text) /\ \A q \in 1..(p - 1) : ~PatternIn(q, text)
    ELSE 0

PatternRisk(text) ==
    IF FirstPattern(text) # 0
    THEN [score |-> Pct(70), factors |-> << <<"description_contains", FirstPattern(text)>> >>]
    ELSE [score |-> 0, factors |-> <<>>]

\* the sentiment step: skipped without a pipeline, swallowed when the pipeline
\* raises; the pipeline's answer for description[:512] is pipeline.out
SentimentRisk(risk_score, pipeline) ==
    IF pipeline.t = "None" THEN [score |-> risk_score, factors |-> <<>>]
    ELSE IF pipeline.out.t = "raise" THEN [score |-> risk_score, factors |-> <<>>]
    ELSE IF pipeline.out.label = "1 star" /\ pipeline.out.score > 70
    THEN [score |-> Max(risk_score, Pct(60)), factors |-> << <<"extremely_negative_sentiment">> >>]
    ELSE [score |-> risk_score, factors |-> <<>>]

analyze_description(description, pipeline) ==
    IF ~Truthy(description)
    THEN [score |-> Pct(50), factors |-> << <<"no_description">> >>]
    ELSE LET pat == PatternRisk(description.v)
             sen == SentimentRisk(pat.score, pipeline)
         IN  [score |-> sen.score, factors |-> pat.factors \o sen.factors]

-----------------------------------------------------------------------------
(* ScamAnalyzer.analyze_jetton *)

\* the fake-channel entry of risk_scores: 0.8 when flagged, no entry otherwise
FakeChannelScores(fake) == IF fake.is_fake THEN <<Pct(80)>> ELSE <<>>

\* sum(risk_scores) / len(risk_scores), 0.5 for an empty list
FinalScore(risk_scores) ==
    IF Len(risk_scores) > 0 THEN SumSeq(risk_scores) \div Len(risk_scores) ELSE Pct(50)

\* mutant: a score equal to the threshold is not a scam
IsScamAbove(final_score) == final_score > SCAM_THRESHOLD

IsScam(final_score) == final_score >= SCAM_THRESHOLD

Raised(error, line) == [t |-> "raised", error |-> error, line |-> line]

analyze_jetton(data, pipeline, today) ==
    LET details == Get(data, "details", EmptyDict)
    IN
    IF details.t # "dict" THEN Raised("AttributeError", 242)
    ELSE
    LET socials == Get(details.v, "socials", PyList(<<>>))
    IN
    IF socials.t # "list" THEN Raised("TypeError", 74)
    ELSE
    LET fake == check_fake_channel(socials, today)
        hold == analyze_holders(Get(details.v, "holders", PyList(<<>>)))
        liq  == analyze_liquidity(Get(data, "stonfi_data", EmptyDict))
        tx   == analyze_transactions(Get(data, "transactions", PyList(<<>>)))
        desc == analyze_description(Get(details.v, "description", PyStr(<<>>)), pipeline)
        risk_scores == FakeChannelScores(fake)
                         \o <<hold.score, liq.score, tx.score, desc.score>>
        final_score == FinalScore(risk_scores)
    IN  [t |-> "returned",
         is_scam |-> IsScam(final_score),
         scam_score |-> final_score,
         risk_factors |-> (IF fake.is_fake THEN fake.risk_factors ELSE <<>>)
                            \o hold.factors \o liq.factors \o tx.factors \o desc.factors,
         risk_scores |-> risk_scores,
         ticker |-> Get(details.v, "ticker", PyStr(<<>>)),
         name |-> Get(details.v, "name", PyStr(<<>>)),
         short_name |-> Get(details.v, "short_name", PyStr(<<>>))]

-----------------------------------------------------------------------------
(* MemepadParser.fetch_*: what each coroutine returns for what the remote      *)
(* source did.  A response is an error (session.get or resp.json() raised) or  *)
(* an HTTP status with a JSON body.                                            *)

ErrorResponse == [kind |-> "error"]
Http(status, body) == [kind |-> "http", status |-> status, body |-> body]

fetch_jetton_details(resp) ==
    IF resp.kind = "error" THEN None
    ELSE IF resp.status # 200 THEN None
    ELSE resp.body

fetch_reactions(resp) ==
    IF resp.kind = "error" THEN EmptyDict
    ELSE IF resp.status # 200 THEN EmptyDict
    ELSE resp.body

\* an exception that left a coroutine
Exception == [t |-> "exception"]

\* mutant: fetch_transactions without its try/except
FetchTransactionsUncaught(resp) ==
    IF resp.kind = "error" THEN Exception
    ELSE IF resp.status # 200 THEN PyList(<<>>)
    ELSE Get(resp.body.v, "transactions", PyList(<<>>))

fetch_transactions(resp) ==
    IF resp.kind = "error" THEN PyList(<<>>)
    ELSE IF resp.status # 200 THEN PyList(<<>>)
    ELSE Get(resp.body.v, "transactions", PyList(<<>>))

fetch_stonfi_data(resp) ==
    IF resp.kind = "error" THEN None
    ELSE IF resp.status # 200 THEN None
    ELSE resp.body

fetch_jettons(resp) ==
    IF resp.kind = "error" THEN PyList(<<>>)
    ELSE IF resp.status # 200 THEN PyList(<<>>)
    ELSE Get(resp.body.v, "jettons", PyList(<<>>))

\* the dict get_complete_jetton_data builds from gather's result list
CompleteJettonData(results) ==
    [details |-> results[1], reactions |-> results[2],
     transactions |-> results[3], stonfi_data |-> results[4]]

-----------------------------------------------------------------------------
(* The remote sources' answers the model draws from *)

MaxTransactions == 5
MaxNow == 1

TELEGRAM == <<"T", "E", "L", "E", "G", "R", "A", "M">>
TWITTER == <<"T", "W", "I", "T", "T", "E", "R">>
\* "100x guaranteed profit"
TextScenarioB == <<"1", "0", "0", "x", " ", "g", "u", "a", "r", "a", "n", "t", "e", "e", "d", " ", "p", "r", "o", "f", "i", "t">>
\* "Fair launch"
TextBenign == <<"F", "a", "i", "r", " ", "l", "a", "u", "n", "c", "h">>
\* "New (?I)100X gem": holds the source text of a pattern
TextLiteralPattern == <<"N", "e", "w", " ", "(", "?", "I", ")", "1", "0", "0", "X", " ", "g", "e", "m">>
\* "(?i)Scam.{0,5}alert by without.{0,10}risk": holds the source text of two patterns
TextChannelLiteral == <<"(", "?", "i", ")", "S", "c", "a", "m", ".", "{", "0", ",", "5", "}", "a", "l", "e", "r", "t", " ", "b", "y", " ", "w", "i", "t", "h", "o", "u", "t", ".", "{", "0", ",", "1", "0", "}", "r", "i", "s", "k">>

\* a key the JSON object does not carry
Absent == [t |-> "absent"]

HolderList(percents) == PyList([i \in 1..Len(percents) |-> [percent |-> percents[i]]])

ProfileHolders ==
    { Absent,
      HolderList(<<60, 20, 5, 5, 5>>),
      HolderList(<<5, 60, 20, 5, 5>>),
      HolderList(<<31, 9, 9, 9, 9, 9, 9, 5, 5, 5>>),
      HolderList(<<10, 10, 10, 10, 10, 10, 10, 10, 10, 10>>) }

ProfileDescriptions ==
    { Absent, None, PyStr(TextScenarioB), PyStr(TextBenign), PyStr(TextLiteralPattern) }

IsoDay(d) == [t |-> "iso", day |-> d]
BadDate == [t |-> "bad"]

ProfileSocials ==
    { Absent, None, PyList(<<>>),
      PyList(<< [type |-> PyStr(TELEGRAM), description |-> PyStr(TextChannelLiteral),
                 created_at |-> IsoDay(0 - 400)] >>),
      PyList(<< [type |-> PyStr(TELEGRAM), created_at |-> IsoDay(0 - 13)] >>),
      PyList(<< [type |-> PyStr(TWITTER), description |-> PyStr(TextChannelLiteral)],
                [type |-> PyStr(TELEGRAM), description |-> PyStr(TextScenarioB),
                 created_at |-> BadDate] >>) }

\* the JSON object of a token's details
DetailsOf(holders, description, socials) ==
    LET keys == {"short_name"}
                  \cup (IF holders = Absent THEN {} ELSE {"holders"})
                  \cup (IF description = Absent THEN {} ELSE {"description"})
                  \cup (IF socials = Absent THEN {} ELSE {"socials"})
    IN  PyDict([k \in keys |->
                  CASE k = "holders" -> holders
                    [] k = "description" -> description
                    [] k = "socials" -> socials
                    [] OTHER -> PyStr(<<"t", "1">>)])

DetailsBodies ==
    { DetailsOf(h, d, s) : h \in ProfileHolders, d \in ProfileDescriptions, s \in ProfileSocials }

ReactionsBodies == { PyDict([fire |-> 10, rocket |-> 5]) }

TransactionList(n) == PyList([i \in 1..n |-> [hash |-> i]])

TransactionsBodies == { PyDict([transactions |-> TransactionList(n)]) : n \in 0..MaxTransactions }

LiquidityValues == {100, 500, 1000, 4999, 5000}

StonfiBodies ==
    { EmptyDict } \cup { PyDict([liquidity |-> PyDict([usd |-> v])]) : v \in LiquidityValues }

Responses(bodies) == { ErrorResponse } \cup { Http(500, EmptyDict) } \cup { Http(200, b) : b \in bodies }

\* every value get_complete_jetton_data can return over these answers
PossibleJettonData ==
    { CompleteJettonData(<<fetch_jetton_details(r1), fetch_reactions(r2),
                           fetch_transactions(r3), fetch_stonfi_data(r4)>>) :
        r1 \in Responses(DetailsBodies), r2 \in Responses(ReactionsBodies),
        r3 \in Responses(TransactionsBodies), r4 \in Responses(StonfiBodies) }

\* self.nlp_pipeline: None when the pipeline failed to load; otherwise its answer
\* for the description (it may raise)
Pipeline(out) == [t |-> "pipeline", out |-> out]
Pipelines ==
    { None,
      Pipeline([t |-> "raise"]),
      Pipeline([t |-> "sentiment", label |-> "1 star", score |-> 90]),
      Pipeline([t |-> "sentiment", label |-> "1 star", score |-> 70]) }

-----------------------------------------------------------------------------
(* The analyzer as a state machine *)

NoResult == [t |-> "none"]

\* h with x put before the first entry holding less than x
RECURSIVE InsertDesc(_, _)
InsertDesc(x, h) ==
    IF Len(h) = 0 THEN <<x>>
    ELSE IF Percent(x) > Percent(h[1]) THEN <<x>> \o h
    ELSE <<h[1]>> \o InsertDesc(x, Tail(h))

RECURSIVE SortDesc(_)
SortDesc(h) == IF Len(h) = 0 THEN <<>> ELSE InsertDesc(h[1], SortDesc(Tail(h)))

\* mutant: analyze_holders sorts the caller's list in place before scoring
HoldersSortedInPlace(h) == SortDesc(h)

\* analyze_holders reads holders[0], len(holders) and the copy holders[:5]:
\* it writes nothing to the list
HoldersAfter(h) == h

\* the profile after analyze_jetton: every sub-analyzer only reads its argument
ProfileAfter(data) ==
    IF data.details.t = "dict" /\ Get(data.details.v, "holders", None).t = "list"
    THEN [data EXCEPT !.details.v.holders.v = HoldersAfter(@)]
    ELSE data

IdleFetch ==
    /\ fetch_kind = "idle"
    /\ tasks = <<>>
    /\ completed = <<>>
    /\ gathered = NoResult

\* a spider operation as the provider saw it: the keywords searched, the sleeps
\* taken, the channels join_channel and get_messages were called for, and the
\* value returned
Call(op, searched, slept, joined, fetched, returned) ==
    [op |-> op, searched |-> searched, slept |-> slept, joined |-> joined,
     fetched |-> fetched, returned |-> returned]
NoCall == Call("none", <<>>, <<>>, <<>>, <<>>, None)

IdleCrawl ==
    /\ channels = <<>>
    /\ active_channels = <<>>
    /\ client = FALSE
    /\ potential_tokens = <<>>
    /\ alerts = <<>>
    /\ mentions_seen = <<>>
    /\ last_call = NoCall
    /\ calls = 0
    /\ channel_alerts = <<>>
    /\ notification_bot = FALSE

IdleLinks ==
    /\ links_in = <<>>
    /\ links_out = <<>>

IdleLoop ==
    /\ loop = "none"
    /\ pc = "none"
    /\ cycle = 0
    /\ cycle_log = <<>>
    /\ asleep = 0

IdleSweep ==
    /\ coroutine = [at |-> "idle"]
    /\ in_flight = {}
    /\ polling = "waiting"

\* the parts no specification but their own moves
IdleSteps == IdleLinks /\ IdleLoop /\ IdleSweep

IdleHolders ==
    /\ holders_in = PyList(<<>>)
    /\ holders_out = NoResult

IdleAnalyzer ==
    /\ jetton_data = CompleteJettonData(<<None, EmptyDict, PyList(<<>>), None>>)
    /\ nlp_pipeline = None
    /\ now = 0
    /\ result = NoResult
    /\ assessed_at = 0

Init ==
    /\ jetton_data \in PossibleJettonData
    /\ nlp_pipeline \in Pipelines
    /\ now = 0
    /\ result = NoResult
    /\ assessed_at = 0
    /\ IdleHolders
    /\ IdleFetch
    /\ IdleCrawl
    /\ IdleSteps

AnalyzeJetton ==
    /\ result' = analyze_jetton(jetton_data, nlp_pipeline, now)
    /\ assessed_at' = now
    /\ jetton_data' = ProfileAfter(jetton_data)
    /\ UNCHANGED <<nlp_pipeline, now>>
    /\ UNCHANGED <<holdersVars, fetchVars, crawlVars, stepVars>>

\* a day passes between two scans
Tick ==
    /\ result # NoResult
    /\ now < MaxNow
    /\ now' = now + 1
    /\ UNCHANGED <<jetton_data, nlp_pipeline, result, assessed_at>>
    /\ UNCHANGED <<holdersVars, fetchVars, crawlVars, stepVars>>

Next == AnalyzeJetton \/ Tick

Spec == Init /\ [][Next]_vars

-----------------------------------------------------------------------------
(* The Fetch Orchestrator: get_complete_jetton_data gathers four coroutines,   *)
(* fetch_all_jettons six; each coroutine ends once its source has answered     *)

\* the listing endpoints of fetch_all_jettons, in declaration order
endpoints ==
    <<"spotlight", "published_at", "nearest_to_listing", "hot", "live-streams", "created_at">>

\* a listed token as endpoint e reports it; a is None for an entry with no address
Jetton(a, e) == IF a = None THEN [ticker |-> e] ELSE [address |-> a, ticker |-> e]

\* the listing endpoint e answers with: the sections overlap, a section can
\* list an address twice and an entry can come without an address
ListingBodies(e) ==
    IF e % 2 = 1
    THEN { PyDict([jettons |-> PyList(<<Jetton(PyStr(<<"A">>), e), Jetton(PyStr(<<"B">>), e)>>)]) }
    ELSE { PyDict([jettons |-> PyList(<<Jetton(PyStr(<<"B">>), e), Jetton(None, e),
                                        Jetton(PyStr(<<"C">>), e), Jetton(PyStr(<<"B">>), e)>>)]) }

\* what the GET of listing endpoint e can end in: its listing, or a failure
\* (a network failure for one endpoint, a non-200 answer for the next)
ListingResponses(e) ==
    { IF e % 2 = 1 THEN ErrorResponse ELSE Http(500, EmptyDict) }
        \cup { Http(200, b) : b \in ListingBodies(e) }

DetailsAnswers ==
    { DetailsOf(HolderList(<<60, 20, 5, 5, 5>>), PyStr(TextScenarioB), Absent),
      DetailsOf(Absent, Absent, PyList(<<>>)) }
TransactionsAnswers == { PyDict([transactions |-> TransactionList(n)]) : n \in {2, 3} }
StonfiAnswers == { PyDict([liquidity |-> PyDict([usd |-> v])]) : v \in {100, 500} }

\* the coroutines handed to asyncio.gather, in list order
Coroutines(kind) ==
    IF kind = "complete"
    THEN <<"fetch_jetton_details", "fetch_reactions", "fetch_transactions", "fetch_stonfi_data">>
    ELSE [i \in 1..Len(endpoints) |-> "fetch_jettons"]

\* what source i of the orchestration can answer
SourceResponses(kind, i) ==
    IF kind = "complete"
    THEN Responses(CASE i = 1 -> DetailsAnswers
                     [] i = 2 -> ReactionsBodies
                     [] i = 3 -> TransactionsAnswers
                     [] i = 4 -> StonfiAnswers)
    ELSE ListingResponses(i)

\* the value coroutine f returns (or the exception it lets out) for resp
Fetch(f, resp) ==
    CASE f = "fetch_jetton_details" -> fetch_jetton_details(resp)
      [] f = "fetch_reactions" -> fetch_reactions(resp)
      [] f = "fetch_transactions" -> fetch_transactions(resp)
      [] f = "fetch_stonfi_data" -> fetch_stonfi_data(resp)
      [] f = "fetch_jettons" -> fetch_jettons(resp)

Pending == [state |-> "pending"]
Done(resp, value) == [state |-> "done", resp |-> resp, value |-> value]

\* the merge loop without the seen-address test: every entry with an address is kept
RECURSIVE MergeListKeepsAll(_, _, _)
MergeListKeepsAll(jettons_list, all_jettons, seen_addresses) ==
    IF Len(jettons_list) = 0 THEN [all_jettons |-> all_jettons, seen_addresses |-> seen_addresses]
    ELSE LET jetton == jettons_list[1]
             address == Get(jetton, "address", None)
         IN  IF Truthy(address)
             THEN MergeListKeepsAll(Tail(jettons_list), Append(all_jettons, jetton),
                                    seen_addresses \cup {address})
             ELSE MergeListKeepsAll(Tail(jettons_list), all_jettons, seen_addresses)

\* the de-duplication loop of fetch_all_jettons over the listings still to merge:
\* an entry is kept when it has an address not seen before
RECURSIVE MergeList(_, _, _)
MergeList(jettons_list, all_jettons, seen_addresses) ==
    IF Len(jettons_list) = 0 THEN [all_jettons |-> all_jettons, seen_addresses |-> seen_addresses]
    ELSE LET jetton == jettons_list[1]
             address == Get(jetton, "address", None)
         IN  IF Truthy(address) /\ address \notin seen_addresses
             THEN MergeList(Tail(jettons_list), Append(all_jettons, jetton),
                            seen_addresses \cup {address})
             ELSE MergeList(Tail(jettons_list), all_jettons, seen_addresses)

RECURSIVE MergeResults(_, _, _)
MergeResults(results, all_jettons, seen_addresses) ==
    IF Len(results) = 0 THEN all_jettons
    ELSE LET m == MergeList(results[1].v, all_jettons, seen_addresses)
         IN  MergeResults(Tail(results), m.all_jettons, m.seen_addresses)

InitFetch ==
    /\ fetch_kind \in {"complete", "all"}
    /\ tasks = [i \in 1..Len(Coroutines(fetch_kind)) |-> Pending]
    /\ completed = <<>>
    /\ gathered = NoResult
    /\ IdleAnalyzer
    /\ IdleHolders
    /\ IdleCrawl
    /\ IdleSteps

\* source i answers and coroutine i runs to its return
TaskCompletes(i) ==
    /\ tasks[i] = Pending
    /\ \E resp \in SourceResponses(fetch_kind, i) :
          tasks' = [tasks EXCEPT ![i] = Done(resp, Fetch(Coroutines(fetch_kind)[i], resp))]
    /\ completed' = Append(completed, i)
    /\ UNCHANGED <<fetch_kind, gathered>>
    /\ UNCHANGED <<analyzerVars, holdersVars, crawlVars, stepVars>>

\* the list asyncio.gather hands back in the order the coroutines finished
GatherResultsAsCompleted(tsk, order) == [k \in 1..Len(order) |-> tsk[order[k]].value]

\* the list asyncio.gather hands back: the coroutines' values in the order of
\* its arguments, whatever the order they finished in
GatherResults(tsk, order) == [i \in 1..Len(tsk) |-> tsk[i].value]

\* `await asyncio.gather(*tasks)` resumes the caller: with the list of results
\* once every coroutine has returned, or with the first exception a coroutine
\* let out; the caller then builds its return value
GatherReturns ==
    /\ gathered = NoResult
    /\ \/ \A i \in 1..Len(tasks) : tasks[i] # Pending
       \/ \E i \in 1..Len(tasks) : tasks[i] # Pending /\ tasks[i].value = Exception
    /\ LET results == GatherResults(tasks, completed)
       IN  gathered' =
             IF \E i \in 1..Len(tasks) : tasks[i] # Pending /\ tasks[i].value = Exception
             THEN Raised("Exception", IF fetch_kind = "complete" THEN 185 ELSE 61)
             ELSE IF fetch_kind = "complete"
             THEN [t |-> "returned", value |-> PyDict(CompleteJettonData(results))]
             ELSE [t |-> "returned", value |-> PyList(MergeResults(results, <<>>, {}))]
    /\ UNCHANGED <<fetch_kind, tasks, completed>>
    /\ UNCHANGED <<analyzerVars, holdersVars, crawlVars, stepVars>>

NextFetch == (\E i \in 1..Len(tasks) : TaskCompletes(i)) \/ GatherReturns

SpecFetch == InitFetch /\ [][NextFetch]_vars

-----------------------------------------------------------------------------
(* analyze_holders on its own, over every holder list within the bounds *)

MaxHolders == 10

\* percentages of supply; 0 stands for a holder record with no "percent" field
PercentValues == {0, 1, 10, 20, 30, 31, 50, 51, 60}

HolderOf(p) == IF p = 0 THEN [address |-> "EQ"] ELSE [address |-> "EQ", percent |-> p]

\* the descending lists of n percentages, none above maxv, summing to at most budget
RECURSIVE DescLists(_, _, _)
DescLists(n, maxv, budget) ==
    IF n = 0 THEN { <<>> }
    ELSE UNION { { <<v>> \o rest : rest \in DescLists(n - 1, v, budget - v) } :
                   v \in { x \in PercentValues : x <= maxv /\ x <= budget } }

Reverse(s) == [i \in 1..Len(s) |-> s[Len(s) + 1 - i]]

\* holder lists as a feed delivers them: sorted descending, or ascending
HolderInputs ==
    LET desc == UNION { DescLists(n, 100, 100) : n \in 1..MaxHolders }
    IN  { PyList([i \in 1..Len(ps) |-> HolderOf(ps[i])]) : ps \in desc \cup { Reverse(d) : d \in desc } }

InitHolders ==
    /\ holders_in \in HolderInputs
    /\ holders_out = NoResult
    /\ IdleAnalyzer
    /\ IdleFetch
    /\ IdleCrawl
    /\ IdleSteps

AnalyzeHolders ==
    /\ holders_out = NoResult
    /\ holders_out' = analyze_holders(holders_in)
    /\ holders_in' = PyList(HoldersAfter(holders_in.v))
    /\ UNCHANGED <<analyzerVars, fetchVars, crawlVars, stepVars>>

NextHolders == AnalyzeHolders

SpecHolders == InitHolders /\ [][NextHolders]_vars

-----------------------------------------------------------------------------
(* config.py: the channel settings.  A relevance score or weight w is held     *)
(* exactly as the integer w * 1000000; a datetime is held in whole days.       *)

Thousandths(n) == n * 1000

MONITORED_CHANNELS ==
    <<"tonblum", "memescope", "ton_diamonds", "toncoin_rus", "tonx_dev", "stTON_chat">>

TOKEN_KEYWORDS ==
  << <<"j", "e", "t", "t", "o", "n">>,
     <<"u0442", "u043e", "u043a", "u0435", "u043d">>,
     <<"t", "o", "k", "e", "n">>,
     <<"u0431", "u043b", "u044e", "u043c">>,
     <<"u0431", "u043b", "u0443", "u043c">>,
     <<"b", "l", "u", "m">>,
     <<"m", "e", "m", "e", "p", "a", "d">>,
     <<"a", "i", "r", "d", "r", "o", "p">>,
     <<"u0434", "u0440", "u043e", "u043f">>,
     <<"u044d", "u0438", "u0440", "u0434", "u0440", "u043e", "u043f">>,
     <<"T", "O", "N">>,
     <<"u0442", "u043e", "u043d">> >>

CHANNEL_DISCOVERY ==
    [enabled |-> TRUE,
     max_channels_per_run |-> 5,
     min_relevance_score |-> Thousandths(600),
     max_monitored_channels |-> 50,
     scan_frequency_hours |-> 6,
     cleanup_frequency_days |-> 7]

CHANNEL_SEARCH_KEYWORDS ==
    <<"TON", "toncoin", "ton crypto", "ton blockchain", "jetton", "memepad", "meme coin",
      "u0431u043bu044eu043c", "u0431u043bu0443u043c", "tonblum", "ton diamond", "tonx">>

RELEVANCE_FACTORS ==
    [token_mentions |-> Thousandths(400),
     members_count |-> Thousandths(200),
     activity |-> Thousandths(150),
     description_relevance |-> Thousandths(150),
     age |-> Thousandths(100)]

\* whether d[k] finds k; d[k] raises KeyError when it does not
HasKey(d, k) == k \in DOMAIN d

-----------------------------------------------------------------------------
(* models/db.py: a row of telegram_channel.  The columns no decision reads     *)
(* (title, added_at, source_details) are left out; channel_id is in one-to-one *)
(* correspondence with username, which keys the table here.                    *)

PyInt(n) == [t |-> "int", v |-> n]
Datetime(d) == [t |-> "datetime", day |-> d]

\* `x or 0`
OrZero(x) == IF x.t = "int" THEN x.v ELSE 0

\* entity.id: usernames resolve whatever their case, so two spellings of one
\* username name one entity
EntityId(name) == IF name = "TonBlum" THEN "tonblum" ELSE name

\* the row add_channel_to_db inserts; is_active and token_mentions_count take
\* their column defaults
NewChannel(id, channel_name, about, participants_count, date, source) ==
    [id |-> id,
     channel_id |-> EntityId(channel_name),
     username |-> channel_name,
     description |-> about,
     members_count |-> participants_count,
     created_at |-> date,
     last_scanned_at |-> None,
     is_active |-> TRUE,
     relevance_score |-> Thousandths(500),
     token_mentions_count |-> 0,
     source |-> source]

-----------------------------------------------------------------------------
(* TelegramSpider.update_channel_relevance *)

\* sum(1 for keyword in TOKEN_KEYWORDS if keyword.lower() in description.lower())
KeywordMatches(description) ==
    Cardinality({ k \in 1..Len(TOKEN_KEYWORDS) : ContainsLower(description, TOKEN_KEYWORDS[k]) })

\* min(1.0, count / 10) * weight
TokenMentionsScore(channel) ==
    (Min(10, channel.token_mentions_count) * RELEVANCE_FACTORS["token_mentions"]) \div 10

\* min(1.0, members / 10000) * weight
MembersScore(channel) ==
    (Min(10000, OrZero(channel.members_count)) * RELEVANCE_FACTORS["members_count"]) \div 10000

\* max(0.1, 1.0 - days / 30) * weight, in thirtieths; 0.5 when never scanned
ActivityScore(channel, today) ==
    IF channel.last_scanned_at = None THEN Thousandths(500)
    ELSE LET days_since_scan == today - channel.last_scanned_at.day
         IN  (Max(3, 30 - days_since_scan) * RELEVANCE_FACTORS["activity"]) \div 30

\* min(1.0, matches / 5) * weight; 0.5 without a description
DescriptionScore(channel) ==
    IF ~Truthy(channel.description) THEN Thousandths(500)
    ELSE (Min(5, KeywordMatches(channel.description.v)) * RELEVANCE_FACTORS["description"]) \div 5

AgeScore(channel, today) ==
    IF channel.created_at = None THEN Thousandths(500)
    ELSE LET age_days == today - channel.created_at.day
             factor == IF age_days < 7 THEN 2
                       ELSE IF age_days < 30 THEN 5
                       ELSE IF age_days < 365 THEN 9
                       ELSE 7
         IN  (factor * RELEVANCE_FACTORS["age"]) \div 10

\* channel.relevance_score = relevance_score; return relevance_score
Scored(channel, relevance_score) ==
    [channel |-> [channel EXCEPT !.relevance_score = relevance_score],
     returned |-> relevance_score]

\* the components computed before the failing one are stored
UpdateStoresPartialSum(channel, today) ==
    IF Truthy(channel.description) /\ ~HasKey(RELEVANCE_FACTORS, "description")
    THEN Scored(channel,
                TokenMentionsScore(channel) + MembersScore(channel)
                    + ActivityScore(channel, today))
    ELSE Scored(channel,
                TokenMentionsScore(channel) + MembersScore(channel)
                    + ActivityScore(channel, today) + DescriptionScore(channel)
                    + AgeScore(channel, today))

\* the channel after the call and the value returned.  The weight of the
\* description is read under the key "description", which RELEVANCE_FACTORS
\* does not have: for a channel with a description the KeyError is caught and
\* the stored score is returned as it was
update_channel_relevance(channel, today) ==
    IF Truthy(channel.description) /\ ~HasKey(RELEVANCE_FACTORS, "description")
    THEN [channel |-> channel, returned |-> channel.relevance_score]
    ELSE Scored(channel,
                TokenMentionsScore(channel) + MembersScore(channel)
                    + ActivityScore(channel, today) + DescriptionScore(channel)
                    + AgeScore(channel, today))

-----------------------------------------------------------------------------
(* The chat platform as the spider sees it through Telethon *)

TextKeywordRich ==
    <<"j", "e", "t", "t", "o", "n", " ", "t", "o", "k", "e", "n", " ", "b", "l", "u", "m", " ",
      "a", "i", "r", "d", "r", "o", "p", " ", "m", "e", "m", "e", "p", "a", "d">>
TextNews == <<"T", "O", "N", " ", "n", "e", "w", "s">>

\* a message: whether it has text, and what _extract_potential_token_names and
\* _extract_channel_links find in the text
Message(has_text, names, links) ==
    [text |-> has_text, potential_token_names |-> names, channel_links |-> links]

Unoccupied == [kind |-> "unoccupied"]
TelegramUser == [kind |-> "user"]
TelegramChannelEntity(about, participants_count, date, messages) ==
    [kind |-> "channel", about |-> about, participants_count |-> participants_count,
     date |-> date, messages |-> messages]

\* what get_entity, GetFullChannelRequest and get_messages answer for a username
Telegram(name) ==
    CASE name \in {"tonblum", "TonBlum"} ->
           TelegramChannelEntity(PyStr(TextKeywordRich), PyInt(500), Datetime(0 - 90),
               << Message(FALSE, <<>>, <<>>),
                  Message(TRUE, <<"BLUMX">>, <<"newgem">>),
                  Message(TRUE, <<"BLUMX">>, <<>>) >>)
      [] name = "memescope" ->
           TelegramChannelEntity(None, None, Datetime(0 - 400),
               << Message(TRUE, <<>>, <<"tonblum">>),
                  Message(TRUE, <<"BLUMX">>, <<>>) >>)
      [] name = "ton_diamonds" ->
           TelegramChannelEntity(PyStr(TextNews), PyInt(20000), Datetime(0 - 20),
               << Message(TRUE, <<>>, <<>>) >>)
      [] name \in {"toncoin_rus", "stTON_chat"} ->
           TelegramChannelEntity(PyStr(<<>>), PyInt(0), Datetime(0 - 3), <<>>)
      [] name = "tonx_dev" ->
           TelegramChannelEntity(None, PyInt(20000), Datetime(0 - 3),
               << Message(TRUE, <<>>, <<"newgem">>) >>)
      [] name = "newgem" ->
           TelegramChannelEntity(None, PyInt(20000), Datetime(0 - 3),
               << Message(TRUE, <<"GEM", "TONX">>, <<>>) >>)
      [] name = "durov" -> TelegramUser
      [] OTHER -> Unoccupied

\* the usernames get_entity can fail on during one operation (the channel
\* went private, the request failed)
DownSets == { {}, {"tonblum"} }

\* get_entity(name) answers with a Channel
Resolves(name, down) == name \notin down /\ Telegram(name).kind = "channel"

-----------------------------------------------------------------------------
(* TelegramSpider.add_channel_to_db and load_active_channels *)

\* the stored row is handed back with the flag set again
AddChannelReactivates(table, channel_name, source, down) ==
    IF channel_name \in DOMAIN table
    THEN [table |-> [table EXCEPT ![channel_name].is_active = TRUE],
          channel |-> [table[channel_name] EXCEPT !.is_active = TRUE]]
    ELSE [table |-> table, channel |-> None]

\* the row is inserted whether or not its channel_id is stored already
AddChannelUnconstrained(table, channel_name, source, down) ==
    IF channel_name \in DOMAIN table
    THEN [table |-> table, channel |-> table[channel_name]]
    ELSE IF ~Resolves(channel_name, down)
    THEN [table |-> table, channel |-> None]
    ELSE LET entity == Telegram(channel_name)
             new_channel == NewChannel(Cardinality(DOMAIN table) + 1, channel_name,
                                       entity.about, entity.participants_count,
                                       entity.date, source)
         IN  [table |-> (channel_name :> new_channel) @@ table, channel |-> new_channel]

\* the table after the call and the row returned (None when nothing is).  The
\* commit of a row whose channel_id is stored already fails on the column's
\* unique constraint, and the handler of the inner try returns None
add_channel_to_db(table, channel_name, source, down) ==
    IF channel_name \in DOMAIN table
    THEN [table |-> table, channel |-> table[channel_name]]
    ELSE IF ~Resolves(channel_name, down)
    THEN [table |-> table, channel |-> None]
    ELSE IF \E n \in DOMAIN table : table[n].channel_id = EntityId(channel_name)
    THEN [table |-> table, channel |-> None]
    ELSE LET entity == Telegram(channel_name)
             new_channel == NewChannel(Cardinality(DOMAIN table) + 1, channel_name,
                                       entity.about, entity.participants_count,
                                       entity.date, source)
         IN  [table |-> (channel_name :> new_channel) @@ table, channel |-> new_channel]

\* the usernames of names, in primary-key order
RECURSIVE ById(_, _)
ById(table, names) ==
    IF names = {} THEN <<>>
    ELSE LET first == CHOOSE n \in names : \A m \in names : table[n].id <= table[m].id
         IN  <<first>> \o ById(table, names \ {first})

\* add_channel_to_db for each name of a list, in order
RECURSIVE AddAll(_, _, _, _)
AddAll(table, channel_names, source, down) ==
    IF Len(channel_names) = 0 THEN table
    ELSE AddAll(add_channel_to_db(table, channel_names[1], source, down).table,
                Tail(channel_names), source, down)

\* the table and the working set after load_active_channels
load_active_channels(table, down) ==
    LET selected == { n \in DOMAIN table :
                        /\ table[n].is_active
                        /\ table[n].relevance_score >= CHANNEL_DISCOVERY["min_relevance_score"] }
    IN  IF selected # {}
        THEN [table |-> table, active_channels |-> ById(table, selected)]
        ELSE [table |-> AddAll(table, MONITORED_CHANNELS, "initial", down),
              active_channels |-> MONITORED_CHANNELS]

-----------------------------------------------------------------------------
(* TelegramSpider._process_message and parse_external_chats *)

\* get_entity(name) answers (with a channel or a user)
Reachable(name, down) == name \notin down /\ Telegram(name).kind # "unoccupied"

\* get_messages(entity)
MessagesOf(name) == IF Telegram(name).kind = "channel" THEN Telegram(name).messages ELSE <<>>

\* models/db.py: the attributes of the mapped classes TelegramMessage and
\* PotentialToken
TelegramMessageColumns ==
    {"id", "message_id", "chat_id", "sender_id", "text", "timestamp", "has_token_mention"}
PotentialTokenColumns ==
    {"id", "name", "ticker", "description", "source_message_id", "source_chat_id",
     "found_timestamp", "confidence_score", "processed", "jetton_id"}

\* the keywords _process_message builds its TelegramMessage with
TelegramMessageKeywords ==
    {"message_id", "chat_id", "chat_title", "sender_id", "text", "timestamp",
     "contains_token_mention", "potential_token_name"}

\* the declarative constructor takes the keywords: it raises TypeError on a
\* keyword that is no attribute of the class
Constructs(keywords, columns) == keywords \subseteq columns

\* the row of potential_token _process_message creates
NewToken(token_name) == [name |-> token_name, confidence_score |-> Thousandths(300)]

\* the candidate handed back to the caller
Candidate(token_name) == [t |-> "PotentialToken", name |-> token_name]

\* the usernames of the rows whose channel_id is the id of the chat's entity
RowsOf(table, chat) == { n \in DOMAIN table : table[n].channel_id = EntityId(chat) }

\* the chat's row, looked up by channel_id, with one more mention and a new
\* relevance, when the chat has a row
CountMention(table, chat, today) ==
    IF RowsOf(table, chat) # {}
    THEN [table EXCEPT ![CHOOSE n \in RowsOf(table, chat) : TRUE] =
            update_channel_relevance([@ EXCEPT !.token_mentions_count = @ + 1], today).channel]
    ELSE table

\* a mention takes 0.1 off the confidence of a known candidate
StoreCandidateLowers(table, tokens, committed, token_name) ==
    [table |-> table,
     tokens |-> IF token_name \in DOMAIN tokens
                THEN [tokens EXCEPT ![token_name].confidence_score =
                         Max(0, @ - Thousandths(100))]
                ELSE (token_name :> NewToken(token_name)) @@ tokens,
     committed |-> committed, raised |-> FALSE,
     potential_token |-> Candidate(token_name)]

\* the rest of _process_message for a message with a token name in it: the
\* TelegramMessage is built, which raises on the keywords the class does not
\* have, before the candidate is looked up.  Past that, raising a known
\* candidate reads its mention_count, an attribute PotentialToken does not have
StoreCandidate(table, tokens, committed, token_name) ==
    IF \/ ~Constructs(TelegramMessageKeywords, TelegramMessageColumns)
       \/ token_name \in DOMAIN tokens /\ "mention_count" \notin PotentialTokenColumns
    THEN [table |-> table, tokens |-> tokens, committed |-> committed, raised |-> TRUE,
          potential_token |-> None]
    ELSE [table |-> table,
          tokens |-> IF token_name \in DOMAIN tokens
                     THEN [tokens EXCEPT ![token_name].confidence_score =
                              Min(Thousandths(1000), @ + Thousandths(100))]
                     ELSE (token_name :> NewToken(token_name)) @@ tokens,
          committed |-> committed, raised |-> FALSE,
          potential_token |-> Candidate(token_name)]

\* a message of chat handed to _process_message; tokens is the session's view
\* of potential_token, committed what of it is committed.  With a token name
\* in the message the chat's row gets one more mention and a new relevance,
\* and the session is committed
process_message(table, tokens, committed, message, chat, today) ==
    IF ~message.text \/ message.potential_token_names = <<>>
    THEN [table |-> table, tokens |-> tokens, committed |-> committed, raised |-> FALSE,
          potential_token |-> None]
    ELSE StoreCandidate(CountMention(table, chat, today), tokens,
                        IF RowsOf(table, chat) # {} THEN tokens ELSE committed,
                        message.potential_token_names[1])

\* the token names in the text of a message
NamesIn(message) == IF message.text THEN message.potential_token_names ELSE <<>>

\* the messages of a chat, one after another, up to the first that raises; the
\* caller then rolls the session back.  mentioned lists the token names in the
\* messages processed, found the candidates handed back
RECURSIVE ProcessMessages(_, _, _, _, _, _, _, _)
RECURSIVE ProcessRest(_, _, _, _, _, _)
ProcessMessages(table, tokens, committed, messages, chat, today, mentioned, found) ==
    IF Len(messages) = 0
    THEN [table |-> table, tokens |-> tokens, raised |-> FALSE, mentioned |-> mentioned,
          found |-> found]
    ELSE ProcessRest(process_message(table, tokens, committed, messages[1], chat, today),
                     Tail(messages), chat, today, mentioned \o NamesIn(messages[1]), found)

\* after one message, r what _process_message left
ProcessRest(r, messages, chat, today, mentioned, found) ==
    IF r.raised
    THEN [table |-> r.table, tokens |-> r.committed, raised |-> TRUE,
          mentioned |-> mentioned, found |-> found]
    ELSE ProcessMessages(r.table, r.tokens, r.committed, messages, chat, today, mentioned,
                         IF r.potential_token = None THEN found
                         ELSE Append(found, r.potential_token.name))

\* s with the names of more it does not hold yet
RECURSIVE Union(_, _)
Union(s, more) ==
    IF Len(more) = 0 THEN s
    ELSE Union(IF \E i \in 1..Len(s) : s[i] = more[1] THEN s ELSE Append(s, more[1]),
               Tail(more))

\* the table with the row of channel_name, when there is one, scanned today
Scanned(table, channel_name, today) ==
    IF channel_name \in DOMAIN table
    THEN [table EXCEPT ![channel_name].last_scanned_at = Datetime(today)]
    ELSE table

\* the loop of parse_external_chats over the working set; fetched lists the
\* channels get_messages was called for
RECURSIVE ParseChannels(_, _, _, _, _, _, _, _)
RECURSIVE ParseRest(_, _, _, _, _, _, _)
ParseChannels(table, tokens, channel_names, today, down, fetched, mentioned, discovered_tokens) ==
    IF Len(channel_names) = 0
    THEN [table |-> table, tokens |-> tokens, fetched |-> fetched, mentioned |-> mentioned,
          discovered_tokens |-> discovered_tokens]
    ELSE IF ~Reachable(channel_names[1], down)
    THEN ParseChannels(table, tokens, Tail(channel_names), today, down, fetched,
                       mentioned, discovered_tokens)
    ELSE ParseRest(ProcessMessages(Scanned(table, channel_names[1], today), tokens, tokens,
                                   MessagesOf(channel_names[1]), channel_names[1], today,
                                   <<>>, <<>>),
                   Tail(channel_names), today, down, Append(fetched, channel_names[1]),
                   mentioned, discovered_tokens)

\* the pass ends at the first channel with a message that raised
ParseRestAborts(r, channel_names, today, down, fetched, mentioned, discovered_tokens) ==
    IF r.raised
    THEN [table |-> r.table, tokens |-> r.tokens, fetched |-> fetched,
          mentioned |-> mentioned \o r.mentioned,
          discovered_tokens |-> Union(discovered_tokens, r.found)]
    ELSE ParseChannels(r.table, r.tokens, channel_names, today, down, fetched,
                       mentioned \o r.mentioned, Union(discovered_tokens, r.found))

\* after one channel, r what its messages left
ParseRest(r, channel_names, today, down, fetched, mentioned, discovered_tokens) ==
    ParseChannels(r.table, r.tokens, channel_names, today, down, fetched,
                  mentioned \o r.mentioned, Union(discovered_tokens, r.found))

parse_external_chats(table, tokens, working_set, today, down) ==
    ParseChannels(table, tokens, working_set, today, down, <<>>, <<>>, <<>>)

-----------------------------------------------------------------------------
(* main.clean_old_channels *)

\* the retirement rule, with "30 days ago or earlier"
RetiredAtThirtyDays(channel, today) ==
    /\ channel.is_active
    /\ channel.relevance_score < Thousandths(300)
    /\ channel.last_scanned_at # None
    /\ channel.last_scanned_at.day <= today - 30

\* the filter of the cleanup query; a NULL last_scanned_at compares as unknown
\* and the row is not selected
Retired(channel, today) ==
    /\ channel.is_active
    /\ channel.relevance_score < Thousandths(300)
    /\ channel.last_scanned_at # None
    /\ channel.last_scanned_at.day < today - 30

clean_old_channels(table, today) ==
    [n \in DOMAIN table |->
        IF Retired(table[n], today) THEN [table[n] EXCEPT !.is_active = FALSE] ELSE table[n]]

-----------------------------------------------------------------------------
(* TelegramSpider.search_channels_by_keywords *)

\* FloodWaitError.seconds
FloodSeconds == 30

\* results.chats of SearchGlobalRequest(q = keyword): usernames
SearchResults(keyword) ==
    CASE keyword = "TON" -> <<"tonblum", "ton_diamonds">>
      [] keyword = "jetton" -> <<"newgem", "durov", "tonblum">>
      [] keyword = "tonblum" -> <<"tonblum">>
      [] OTHER -> <<>>

\* the working set with the name appended when a row came back and the name is
\* not in it
Registered(state, r, channel_name) ==
    [state EXCEPT
        !.table = r.table,
        !.active_channels =
            IF r.channel # None /\ \A i \in 1..Len(@) : @[i] # channel_name
            THEN Append(@, channel_name) ELSE @]

\* a name found: into the table, and into the working set when a row comes back
Register(state, channel_name, source, down) ==
    Registered(state, add_channel_to_db(state.table, channel_name, source, down), channel_name)

\* the chats of one search result
RECURSIVE RegisterFound(_, _, _)
RegisterFound(state, chats, down) ==
    IF Len(chats) = 0 THEN state
    ELSE LET channel_name == chats[1]
         IN  IF \E i \in 1..Len(state.found_channels) : state.found_channels[i] = channel_name
             THEN RegisterFound(state, Tail(chats), down)
             ELSE RegisterFound(
                      Register([state EXCEPT !.found_channels = Append(@, channel_name)],
                               channel_name, "keyword_search", down),
                      Tail(chats), down)

\* the sweep from keyword k on; outcome[k] is how the provider answers the
\* request for keyword k: "results", "flood" (FloodWaitError) or "error".
\* After a FloodWaitError the loop sleeps and continues with the next keyword
RECURSIVE SearchFrom(_, _, _, _, _)
SearchFrom(state, keywords, k, outcome, down) ==
    IF k > Len(keywords) THEN state
    ELSE SearchFrom(
             CASE outcome[k] = "flood" ->
                    [state EXCEPT !.searched = Append(@, keywords[k]),
                                  !.slept = Append(@, FloodSeconds)]
               [] outcome[k] = "error" ->
                    [state EXCEPT !.searched = Append(@, keywords[k])]
               [] OTHER ->
                    [RegisterFound(state, SearchResults(keywords[k]), down)
                        EXCEPT !.searched = Append(@, keywords[k]),
                               !.slept = Append(@, 2)],
             keywords, k + 1, outcome, down)

\* the table, the working set, the requests issued, the sleeps taken and the
\* list returned
search_channels_by_keywords(table, working_set, keywords, outcome, down) ==
    SearchFrom([table |-> table, active_channels |-> working_set, searched |-> <<>>,
                slept |-> <<>>, found_channels |-> <<>>],
               keywords, 1, outcome, down)

-----------------------------------------------------------------------------
(* TelegramSpider.discover_new_channels *)

\* the usernames of the first `limit` names, in primary-key order
FirstById(table, names, limit) == SubSeq(ById(table, names), 1, Min(limit, Cardinality(names)))

\* the row of a swept channel: its mentions counted anew, scanned today, rescored
Rescored(channel, token_mentions, today) ==
    update_channel_relevance([channel EXCEPT !.token_mentions_count = token_mentions,
                                             !.last_scanned_at = Datetime(today)],
                             today).channel

\* the sweep over the never-scanned channels: join, fetch, process, rescore
RECURSIVE SweepChannels(_, _, _, _, _)
RECURSIVE SweepRest(_, _, _, _, _, _, _)
SweepChannels(state, usernames, today, down, notify) ==
    IF Len(usernames) = 0 THEN state
    ELSE IF ~Reachable(usernames[1], down)
    THEN SweepChannels([state EXCEPT !.joined = Append(@, usernames[1])],
                       Tail(usernames), today, down, notify)
    ELSE SweepRest(state,
                   ProcessMessages(state.table, state.tokens, state.tokens,
                                   MessagesOf(usernames[1]), usernames[1], today, <<>>, <<>>),
                   usernames[1], Tail(usernames), today, down, notify)

\* after one channel, r what its messages left; the row is rescored and the
\* alert sent unless a message raised
SweepRest(state, r, username, usernames, today, down, notify) ==
    SweepChannels(
        [state EXCEPT
            !.joined = Append(@, username),
            !.fetched = Append(@, username),
            !.mentioned = @ \o r.mentioned,
            !.tokens = r.tokens,
            !.table = IF r.raised THEN r.table
                      ELSE [r.table EXCEPT ![username] = Rescored(@, Len(r.found), today)],
            !.channel_alerts =
                IF /\ ~r.raised
                   /\ notify
                   /\ Rescored(r.table[username], Len(r.found), today).relevance_score
                         >= Thousandths(700)
                THEN Append(@, username) ELSE @],
        usernames, today, down, notify)

\* the new_channels a "new channel" alert goes out for
RECURSIVE NewChannelAlerts(_, _)
NewChannelAlerts(table, new_channels) ==
    IF Len(new_channels) = 0 THEN <<>>
    ELSE (IF new_channels[1] \in DOMAIN table
             /\ table[new_channels[1]].relevance_score >= Thousandths(600)
          THEN <<new_channels[1]>> ELSE <<>>)
         \o NewChannelAlerts(table, Tail(new_channels))

\* the usernames of the active rows never scanned
Unscanned(table) ==
    { n \in DOMAIN table : table[n].is_active /\ table[n].last_scanned_at = None }

\* discovery after the keyword search left found: alerts, sweep
SweepFound(found, tokens, today, down, notify) ==
    SweepChannels(
        [table |-> found.table, tokens |-> tokens, joined |-> <<>>, fetched |-> <<>>,
         mentioned |-> <<>>, searched |-> found.searched, slept |-> found.slept,
         channel_alerts |-> IF notify THEN NewChannelAlerts(found.table, found.found_channels)
                            ELSE <<>>],
        FirstById(found.table, Unscanned(found.table),
                  CHANNEL_DISCOVERY["max_channels_per_run"]),
        today, down, notify)

\* discovery after the sweep left swept: the working set is loaded again
Reloaded(swept, loaded) ==
    [table |-> loaded.table, tokens |-> swept.tokens,
     active_channels |-> loaded.active_channels,
     searched |-> swept.searched, slept |-> swept.slept, joined |-> swept.joined,
     fetched |-> swept.fetched, mentioned |-> swept.mentioned,
     channel_alerts |-> swept.channel_alerts]

SweepAndReload(swept, down) == Reloaded(swept, load_active_channels(swept.table, down))

\* discovery past the cap test: keyword search, alerts, sweep, reload
DiscoveryRun(table, tokens, working_set, today, outcome, down, notify) ==
    SweepAndReload(
        SweepFound(search_channels_by_keywords(table, working_set, CHANNEL_SEARCH_KEYWORDS,
                                               outcome, down),
                   tokens, today, down, notify),
        down)

\* discovery left without a step taken
DiscoverySkipped(table, tokens, working_set) ==
    [table |-> table, tokens |-> tokens, active_channels |-> working_set,
     searched |-> <<>>, slept |-> <<>>, joined |-> <<>>, fetched |-> <<>>,
     mentioned |-> <<>>, channel_alerts |-> <<>>]

\* discovery with no cap test
DiscoverUncapped(table, tokens, working_set, today, outcome, down, notify) ==
    DiscoveryRun(table, tokens, working_set, today, outcome, down, notify)

\* the cap is read under the key "max_channels_total", which CHANNEL_DISCOVERY
\* does not have: the KeyError is caught by the handler around the whole
\* body, and the call ends there
discover_new_channels(table, tokens, working_set, today, outcome, down, notify) ==
    IF \/ ~CHANNEL_DISCOVERY["enabled"]
       \/ ~HasKey(CHANNEL_DISCOVERY, "max_channels_total")
       \/ Cardinality({ n \in DOMAIN table : table[n].is_active })
             >= CHANNEL_DISCOVERY["max_channels_total"]
    THEN DiscoverySkipped(table, tokens, working_set)
    ELSE DiscoveryRun(table, tokens, working_set, today, outcome, down, notify)

-----------------------------------------------------------------------------
(* TelegramSpider.parse_token_chats *)

\* a social link of a token: its type, the channel name its url ends in ("" for
\* no url) and what the Telegram link patterns find in the url
Social(type, channel_name, hidden) == [type |-> type, channel_name |-> channel_name, hidden |-> hidden]

\* the links in the texts of messages, message by message
MessageLinks(messages) ==
    Concat([i \in 1..Len(messages) |->
               IF messages[i].text THEN messages[i].channel_links ELSE <<>>])

\* extract_channel_links_from_messages: each name not met before in this call
\* is registered
RECURSIVE ExtractLinks(_, _, _, _)
ExtractLinks(state, links, found_channels, down) ==
    IF Len(links) = 0 THEN state
    ELSE IF \E i \in 1..Len(found_channels) : found_channels[i] = links[1]
    THEN ExtractLinks(state, Tail(links), found_channels, down)
    ELSE ExtractLinks(Register(state, links[1], "message_link", down), Tail(links),
                      Append(found_channels, links[1]), down)

\* the names hidden in the url of a social that is not a Telegram one
RECURSIVE RegisterHidden(_, _, _)
RegisterHidden(state, hidden, down) ==
    IF Len(hidden) = 0 THEN state
    ELSE IF \E i \in 1..Len(state.found_telegram_channels) :
                state.found_telegram_channels[i] = hidden[1]
    THEN RegisterHidden(state, Tail(hidden), down)
    ELSE RegisterHidden(
             Register([state EXCEPT !.found_telegram_channels = Append(@, hidden[1])],
                      hidden[1], "hidden_in_social", down),
             Tail(hidden), down)

\* the loop over the socials.  A Telegram social's channel is resolved,
\* registered, and its last messages are fetched and searched for links
RECURSIVE ParseSocials(_, _, _)
ParseSocials(state, socials, down) ==
    IF Len(socials) = 0 THEN state
    ELSE LET social == socials[1]
             channel_name == social.channel_name
         IN  IF social.type = "TELEGRAM"
             THEN IF channel_name = ""
                  THEN ParseSocials(state, Tail(socials), down)
                  ELSE LET noted == [state EXCEPT
                                        !.found_telegram_channels = Append(@, channel_name)]
                       IN  IF ~Reachable(channel_name, down)
                           THEN ParseSocials(noted, Tail(socials), down)
                           ELSE LET registered == Register(noted, channel_name,
                                                           "jetton_social", down)
                                IN  IF Telegram(channel_name).kind # "channel"
                                    THEN ParseSocials(registered, Tail(socials), down)
                                    ELSE ParseSocials(
                                             ExtractLinks(
                                                 [registered EXCEPT
                                                     !.fetched = Append(@, channel_name)],
                                                 MessageLinks(MessagesOf(channel_name)),
                                                 <<>>, down),
                                             Tail(socials), down)
             ELSE ParseSocials(RegisterHidden(state, social.hidden, down), Tail(socials), down)

parse_token_chats(table, working_set, socials, down) ==
    ParseSocials([table |-> table, active_channels |-> working_set, fetched |-> <<>>,
                  found_telegram_channels |-> <<>>],
                 socials, down)

-----------------------------------------------------------------------------
(* The crawl: the spider's operations and the cleanup pass, called in any      *)
(* order, over a table that outlives the process                               *)

MaxDays == 1
MaxCalls == 3
MaxMentions == 4
MaxFloodWaits == 2

\* a row as stored by an earlier run or entered by hand (relevance_score is a
\* column with default 0.0)
StoredChannel(id, username, last_scanned_at, relevance_score, token_mentions_count) ==
    LET entity == Telegram(username)
    IN  [NewChannel(id, username, entity.about, entity.participants_count, entity.date,
                    "initial") EXCEPT
            !.last_scanned_at = last_scanned_at,
            !.relevance_score = relevance_score,
            !.token_mentions_count = token_mentions_count]

\* the row the worked example of the relevance score is about
ExampleTable ==
    "tonblum" :> StoredChannel(1, "tonblum", Datetime(0 - 5), Thousandths(500), 12)

\* rows on both sides of each bound of the retirement rule, and one relevant row
AgedTable ==
    ("tonblum" :> StoredChannel(1, "tonblum", Datetime(0 - 31), Thousandths(200), 0))
    @@ ("memescope" :> StoredChannel(2, "memescope", Datetime(0 - 30), Thousandths(200), 0))
    @@ ("ton_diamonds" :> StoredChannel(3, "ton_diamonds", Datetime(0 - 40), Thousandths(300), 0))
    @@ ("toncoin_rus" :> StoredChannel(4, "toncoin_rus", None, Thousandths(200), 0))
    @@ ("newgem" :> StoredChannel(5, "newgem", Datetime(0 - 1), Thousandths(800), 3))

\* one aged row and nothing relevant
LoneTable ==
    "tonblum" :> StoredChannel(1, "tonblum", Datetime(0 - 31), Thousandths(200), 0)

\* one relevant row and never-scanned rows, as many active rows in all as the
\* configured number of monitored channels
BulkTable ==
    LET count == CHANNEL_DISCOVERY["max_monitored_channels"] - 1
        name == [i \in 1..count |-> "channel" \o ToString(i)]
    IN  ("tonblum" :> StoredChannel(1, "tonblum", Datetime(0 - 1), Thousandths(800), 3)) @@
        [n \in { name[i] : i \in 1..count } |->
            NewChannel(1 + (CHOOSE i \in 1..count : name[i] = n), n, None, None, None,
                       "message_link")]

StoredTables == { <<>>, ExampleTable, AgedTable, LoneTable, BulkTable }

\* potential_token as an earlier run or a migration left it: empty, or one
\* candidate the marketplace lists
StoredCandidates == "BLUMX" :> NewToken("BLUMX")

\* the socials of a token handed to parse_token_chats
TokenSocials ==
    { << Social("TELEGRAM", "tonblum", <<>>), Social("TWITTER", "", <<"memescope">>) >>,
      << Social("TELEGRAM", "", <<>>), Social("WEBSITE", "", <<"durov", "newgem">>) >>,
      << Social("TELEGRAM", "TonBlum", <<>>) >> }

\* how the provider answers the twelve searches of a sweep: at most
\* MaxFloodWaits rate-limit signals and at most one other failure
SearchOutcomes ==
    { [k \in 1..Len(CHANNEL_SEARCH_KEYWORDS) |->
          IF k \in floods THEN "flood" ELSE IF k = failed THEN "error" ELSE "results"] :
        floods \in { s \in SUBSET (1..Len(CHANNEL_SEARCH_KEYWORDS)) :
                        Cardinality(s) <= MaxFloodWaits },
        failed \in 0..Len(CHANNEL_SEARCH_KEYWORDS) }

\* a sweep the provider answers without a rate-limit signal
QuietOutcomes == { [k \in 1..Len(CHANNEL_SEARCH_KEYWORDS) |-> "results"] }

\* mentions_seen after the names of mentioned were seen once more each
RECURSIVE Counted(_, _)
Counted(seen, mentioned) ==
    IF Len(mentioned) = 0 THEN seen
    ELSE Counted((mentioned[1] :> (IF mentioned[1] \in DOMAIN seen
                                   THEN seen[mentioned[1]] + 1 ELSE 1)) @@ seen,
                 Tail(mentioned))

InitCrawl ==
    /\ \/ channels \in StoredTables /\ potential_tokens = <<>>
       \/ channels = ExampleTable /\ potential_tokens = StoredCandidates
    /\ active_channels = <<>>
    /\ client = FALSE
    /\ alerts = <<>>
    /\ mentions_seen = <<>>
    /\ last_call = NoCall
    /\ calls = 0
    /\ channel_alerts = <<>>
    /\ notification_bot = FALSE
    /\ IdleAnalyzer
    /\ IdleHolders
    /\ IdleFetch
    /\ IdleSteps

\* main.setup: TelegramSpider.connect with a client that starts: the client is
\* set and the working set loaded.  Every operation below is called by
\* main_loop after setup
Connect ==
    /\ ~client
    /\ \E down \in DownSets :
          LET loaded == load_active_channels(channels, down)
          IN  /\ channels' = loaded.table
              /\ active_channels' = loaded.active_channels
    /\ last_call' = Call("connect", <<>>, <<>>, <<>>, <<>>, [t |-> "bool", v |-> TRUE])
    /\ client' = TRUE
    /\ calls' = calls
    /\ UNCHANGED <<potential_tokens, alerts, mentions_seen, channel_alerts, notification_bot>>
    /\ UNCHANGED <<analyzerVars, holdersVars, fetchVars, stepVars>>

ParseTokenChats ==
    /\ client
    /\ calls < MaxCalls
    /\ calls' = calls + 1
    /\ \E socials \in TokenSocials, down \in DownSets :
          LET r == parse_token_chats(channels, active_channels, socials, down)
          IN  /\ channels' = r.table
              /\ active_channels' = r.active_channels
              /\ last_call' = Call("parse_token_chats", <<>>, <<>>, <<>>, r.fetched,
                                   PyList(r.found_telegram_channels))
    /\ UNCHANGED <<client, potential_tokens, alerts, mentions_seen, channel_alerts,
                   notification_bot>>
    /\ UNCHANGED <<analyzerVars, holdersVars, fetchVars, stepVars>>

\* the state after parse_external_chats left r
ParsedExternal(r) ==
    /\ channels' = r.table
    /\ potential_tokens' = r.tokens
    /\ mentions_seen' = Counted(mentions_seen, r.mentioned)
    /\ last_call' = Call("parse_external_chats", <<>>, <<>>, <<>>, r.fetched,
                         PyList(r.discovered_tokens))

ParseExternalChats ==
    /\ client
    /\ calls < MaxCalls
    /\ calls' = calls + 1
    /\ \A n \in DOMAIN mentions_seen : mentions_seen[n] < MaxMentions
    /\ \E down \in DownSets :
          ParsedExternal(parse_external_chats(channels, potential_tokens, active_channels,
                                              now, down))
    /\ UNCHANGED <<active_channels, client, alerts, channel_alerts, notification_bot>>
    /\ UNCHANGED <<analyzerVars, holdersVars, fetchVars, stepVars>>

\* the state after discover_new_channels left r
Discovered(r) ==
    /\ channels' = r.table
    /\ potential_tokens' = r.tokens
    /\ active_channels' = r.active_channels
    /\ mentions_seen' = Counted(mentions_seen, r.mentioned)
    /\ channel_alerts' = channel_alerts \o r.channel_alerts
    /\ last_call' = Call("discover_new_channels", r.searched, r.slept, r.joined, r.fetched,
                         None)

DiscoverNewChannels ==
    /\ client
    /\ calls < MaxCalls
    /\ calls' = calls + 1
    /\ \E outcome \in QuietOutcomes, down \in DownSets, notify \in BOOLEAN :
          /\ Discovered(discover_new_channels(channels, potential_tokens, active_channels,
                                              now, outcome, down, notify))
          /\ notification_bot' = notify
    /\ UNCHANGED <<client, alerts>>
    /\ UNCHANGED <<analyzerVars, holdersVars, fetchVars, stepVars>>

SearchChannelsByKeywords(outcomes) ==
    /\ client
    /\ calls < MaxCalls
    /\ calls' = calls + 1
    /\ \E outcome \in outcomes, down \in DownSets :
          LET r == search_channels_by_keywords(channels, active_channels,
                                               CHANNEL_SEARCH_KEYWORDS, outcome, down)
          IN  /\ channels' = r.table
              /\ active_channels' = r.active_channels
              /\ last_call' = Call("search_channels_by_keywords", r.searched, r.slept, <<>>,
                                   <<>>, PyList(r.found_channels))
    /\ UNCHANGED <<client, potential_tokens, alerts, mentions_seen, channel_alerts,
                   notification_bot>>
    /\ UNCHANGED <<analyzerVars, holdersVars, fetchVars, stepVars>>

CleanOldChannels ==
    /\ client
    /\ calls < MaxCalls
    /\ calls' = calls + 1
    /\ channels' = clean_old_channels(channels, now)
    /\ last_call' = Call("clean_old_channels", <<>>, <<>>, <<>>, <<>>, None)
    /\ UNCHANGED <<active_channels, client, potential_tokens, alerts, mentions_seen,
                   channel_alerts, notification_bot>>
    /\ UNCHANGED <<analyzerVars, holdersVars, fetchVars, stepVars>>

\* memepad/parser.py: the methods of MemepadParser
MemepadParserMethods ==
    {"fetch_jettons", "fetch_all_jettons", "fetch_jetton_details", "fetch_reactions",
     "fetch_transactions", "fetch_stonfi_data", "get_complete_jetton_data"}

\* the names search_token would find on the marketplace
MemepadListed == {"BLUMX"}

\* potential_token after the candidates of one cycle were looked up on the
\* marketplace, no stored jetton matching: a candidate found there gets
\* confidence 0.9 (found_on_memepad, which is set with it, is no column).  The
\* lookup goes through search_token, which MemepadParser does not have: the
\* AttributeError on the first candidate ends the function
RECURSIVE ReconciledTokens(_, _)
ReconciledTokens(tokens, discovered_tokens) ==
    IF Len(discovered_tokens) = 0 THEN tokens
    ELSE IF "search_token" \notin MemepadParserMethods THEN tokens
    ELSE ReconciledTokens(
             IF discovered_tokens[1] \in MemepadListed \cap DOMAIN tokens
             THEN [tokens EXCEPT ![discovered_tokens[1]].confidence_score = Thousandths(900)]
             ELSE tokens,
             Tail(discovered_tokens))

\* the candidates of one cycle a "new potential token" alert goes out for, no
\* stored jetton matching and the marketplace not listing them.  The
\* marketplace is asked through search_token, which MemepadParser does not
\* have: the AttributeError on the first candidate ends the function
RECURSIVE NewTokenAlerts(_, _)
NewTokenAlerts(tokens, discovered_tokens) ==
    IF Len(discovered_tokens) = 0 THEN <<>>
    ELSE IF "search_token" \notin MemepadParserMethods THEN <<>>
    ELSE (IF discovered_tokens[1] \in DOMAIN tokens \ MemepadListed
             /\ tokens[discovered_tokens[1]].confidence_score > Thousandths(500)
          THEN <<discovered_tokens[1]>> ELSE <<>>)
         \o NewTokenAlerts(tokens, Tail(discovered_tokens))

\* the state after check_external_tokens, d what its discovery left and r what
\* its crawl left
CheckedExternal(d, r) ==
    /\ channels' = r.table
    /\ potential_tokens' = ReconciledTokens(r.tokens, r.discovered_tokens)
    /\ active_channels' = d.active_channels
    /\ mentions_seen' = Counted(Counted(mentions_seen, d.mentioned), r.mentioned)
    /\ alerts' = alerts \o NewTokenAlerts(r.tokens, r.discovered_tokens)
    /\ channel_alerts' = channel_alerts \o d.channel_alerts
    /\ notification_bot' = TRUE
    /\ last_call' = Call("check_external_tokens", d.searched, d.slept, d.joined,
                         d.fetched \o r.fetched, PyList(r.discovered_tokens))

\* the crawl of check_external_tokens, after its discovery left d
CrawledAfter(d, today, down) ==
    CheckedExternal(d, parse_external_chats(d.table, d.tokens, d.active_channels, today, down))

\* main.check_external_tokens: discovery, then the crawl, then the alerts
CheckExternalTokens ==
    /\ client
    /\ calls < MaxCalls
    /\ calls' = calls + 1
    /\ \A n \in DOMAIN mentions_seen : mentions_seen[n] < MaxMentions
    /\ \E outcome \in QuietOutcomes, down \in DownSets :
          CrawledAfter(discover_new_channels(channels, potential_tokens, active_channels,
                                             now, outcome, down, TRUE),
                       now, down)
    /\ UNCHANGED client
    /\ UNCHANGED <<analyzerVars, holdersVars, fetchVars, stepVars>>

\* update_channel_relevance on a stored row, the caller committing
UpdateChannelRelevance ==
    /\ client
    /\ calls < MaxCalls
    /\ calls' = calls + 1
    /\ \E n \in DOMAIN channels \cap {"tonblum", "memescope", "channel1"} :
          LET r == update_channel_relevance(channels[n], now)
          IN  /\ channels' = [channels EXCEPT ![n] = r.channel]
              /\ last_call' = Call("update_channel_relevance", <<>>, <<>>, <<>>, <<n>>,
                                   PyInt(r.returned))
    /\ UNCHANGED <<active_channels, client, potential_tokens, alerts, mentions_seen,
                   channel_alerts, notification_bot>>
    /\ UNCHANGED <<analyzerVars, holdersVars, fetchVars, stepVars>>

DayPasses ==
    /\ now < MaxDays
    /\ now' = now + 1
    /\ UNCHANGED <<jetton_data, nlp_pipeline, result, assessed_at>>
    /\ UNCHANGED <<holdersVars, fetchVars, crawlVars, stepVars>>

NextCrawl ==
    \/ Connect
    \/ ParseTokenChats
    \/ ParseExternalChats
    \/ DiscoverNewChannels
    \/ SearchChannelsByKeywords(QuietOutcomes)
    \/ CleanOldChannels
    \/ CheckExternalTokens
    \/ UpdateChannelRelevance
    \/ DayPasses

SpecCrawl == InitCrawl /\ [][NextCrawl]_vars

-----------------------------------------------------------------------------
(* The keyword sweep on its own: setup, then one sweep the provider answers    *)
(* with rate-limit signals and failures                                        *)

InitSearch ==
    /\ channels \in { <<>>, ExampleTable }
    /\ active_channels = <<>>
    /\ client = FALSE
    /\ potential_tokens = <<>>
    /\ alerts = <<>>
    /\ mentions_seen = <<>>
    /\ last_call = NoCall
    /\ calls = 0
    /\ channel_alerts = <<>>
    /\ notification_bot = FALSE
    /\ IdleAnalyzer
    /\ IdleHolders
    /\ IdleFetch
    /\ IdleSteps

SearchSweep ==
    /\ calls = 0
    /\ SearchChannelsByKeywords(SearchOutcomes)

NextSearch ==
    \/ Connect
    \/ SearchSweep

SpecSearch == InitSearch /\ [][NextSearch]_vars

-----------------------------------------------------------------------------
(* The life of a row from its creation on: an empty table, setup, then         *)
(* registrations, scans, recomputations and cleanup passes in any order, with  *)
(* months passing in between                                                   *)

MaxMonths == 2

InitRetire ==
    /\ channels = <<>>
    /\ potential_tokens = <<>>
    /\ active_channels = <<>>
    /\ client = FALSE
    /\ alerts = <<>>
    /\ mentions_seen = <<>>
    /\ last_call = NoCall
    /\ calls = 0
    /\ channel_alerts = <<>>
    /\ notification_bot = FALSE
    /\ IdleAnalyzer
    /\ IdleHolders
    /\ IdleFetch
    /\ IdleSteps

\* the process sleeps between cycles; 31 days later every scan made so far is
\* older than the month_ago of main.clean_old_channels
MonthPasses ==
    /\ now < 31 * MaxMonths
    /\ now' = now + 31
    /\ UNCHANGED <<jetton_data, nlp_pipeline, result, assessed_at>>
    /\ UNCHANGED <<holdersVars, fetchVars, crawlVars, stepVars>>

NextRetire ==
    \/ Connect
    \/ ParseTokenChats
    \/ ParseExternalChats
    \/ UpdateChannelRelevance
    \/ CleanOldChannels
    \/ MonthPasses

\* what the fairness conditions are about: the client starts, one more
\* operation is called, one more month has passed
Started == client' = TRUE
OperationCalled == calls < MaxCalls /\ calls' = calls + 1
Elapsed == now < 31 * MaxMonths /\ now' = now + 31

\* setup is run, main_loop goes on calling its steps, and time goes on
SpecRetire ==
    /\ InitRetire /\ [][NextRetire]_vars
    /\ WF_client(Started) /\ WF_calls(OperationCalled) /\ WF_now(Elapsed)

-----------------------------------------------------------------------------
(* TelegramSpider._extract_channel_links: the four TELEGRAM_LINK_PATTERNS run   *)
(* over a text with re.findall, each returning what its one group captured     *)

AsciiLetters ==
    {"a", "b", "c", "d", "e", "f", "g", "h", "i", "j", "k", "l", "m", "n", "o", "p", "q", "r", "s", "t", "u", "v", "w", "x", "y", "z"} \cup
    {"A", "B", "C", "D", "E", "F", "G", "H", "I", "J", "K", "L", "M", "N", "O", "P", "Q", "R", "S", "T", "U", "V", "W", "X", "Y", "Z"}
Digits == {"0", "1", "2", "3", "4", "5", "6", "7", "8", "9"}
\* [a-zA-Z0-9_] and [a-zA-Z0-9_-]
WordClass == AsciiLetters \cup Digits \cup {"_"}
InviteClass == WordClass \cup {"-"}

\* a pattern: an optional (?:https?://), a literal, and a group of at least
\* `least` characters of a class, taken greedily
LinkPattern(scheme, literal, class, least) ==
    [scheme |-> scheme, literal |-> literal, class |-> class, least |-> least]

TELEGRAM_LINK_PATTERNS ==
    << LinkPattern(TRUE, <<"t", ".", "m", "e", "/">>, WordClass, 1),
       LinkPattern(FALSE, <<"@">>, WordClass, 5),
       LinkPattern(TRUE, <<"t", ".", "m", "e", "/", "+">>, InviteClass, 1),
       LinkPattern(TRUE, <<"t", ".", "m", "e", "/", "j", "o", "i", "n", "c", "h", "a", "t", "/">>, InviteClass, 1) >>

\* the literal stands in the text at position i
StartsAt(text, i, literal) ==
    /\ i + Len(literal) - 1 <= Len(text)
    /\ \A k \in 1..Len(literal) : text[i + k - 1] = literal[k]

\* the position after the longest run of characters of the class from j on
RECURSIVE RunEnd(_, _, _)
RunEnd(text, j, class) ==
    IF j <= Len(text) /\ text[j] \in class THEN RunEnd(text, j + 1, class) ELSE j

\* the position after https?:// at i, or i when it does not stand there
SchemeEnd(text, i) ==
    IF StartsAt(text, i, <<"h", "t", "t", "p", "s", ":", "/", "/">>) THEN i + 8
    ELSE IF StartsAt(text, i, <<"h", "t", "t", "p", ":", "/", "/">>) THEN i + 7
    ELSE i

\* the literal and the group matched from j: the position after the match, 0
\* for no match
BodyEnd(p, text, j) ==
    IF /\ StartsAt(text, j, p.literal)
       /\ RunEnd(text, j + Len(p.literal), p.class) - (j + Len(p.literal)) >= p.least
    THEN RunEnd(text, j + Len(p.literal), p.class)
    ELSE 0

\* where the literal of a match from i starts: after the scheme when the
\* pattern has one and the rest matches there
BodyStart(p, text, i) ==
    IF p.scheme /\ BodyEnd(p, text, SchemeEnd(text, i)) # 0 THEN SchemeEnd(text, i) ELSE i

\* the position after the match of the pattern from i, 0 for no match
MatchEnd(p, text, i) == BodyEnd(p, text, BodyStart(p, text, i))

\* re.findall(pattern, text) from position i on: the groups of the leftmost
\* matches that do not overlap
RECURSIVE FindAll(_, _, _)
FindAll(p, text, i) ==
    IF i > Len(text) THEN <<>>
    ELSE IF MatchEnd(p, text, i) = 0 THEN FindAll(p, text, i + 1)
    ELSE <<SubSeq(text, BodyStart(p, text, i) + Len(p.literal), MatchEnd(p, text, i) - 1)>>
         \o FindAll(p, text, MatchEnd(p, text, i))

\* channel_names after the loop over the patterns
AllMatches(text) ==
    Concat([k \in 1..Len(TELEGRAM_LINK_PATTERNS) |-> FindAll(TELEGRAM_LINK_PATTERNS[k], text, 1)])

\* the lists that hold each element of a set once
RECURSIVE Orderings(_)
Orderings(S) ==
    IF S = {} THEN { <<>> }
    ELSE UNION { { <<x>> \o s : s \in Orderings(S \ {x}) } : x \in S }

\* the matches are returned as they were collected
ExtractKeepsDuplicates(text) == { AllMatches(text) }

\* list(set(channel_names)): the lists the call can return, the order of a set
\* being left to the interpreter
extract_channel_links(text) == Orderings(Range(AllMatches(text)))

-----------------------------------------------------------------------------
(* Link extraction on its own: a text, then two calls on it *)

MaxFragments == 3

\* pieces of message text: a mention, a bare link to the same channel, an
\* invite link, a joinchat link, a mention too short to count
Fragments ==
    << <<"j", "o", "i", "n", " ", "@", "c", "r", "y", "p", "t", "o", "t", "o", "n", "_", "n", "e", "w", "s">>,
       <<" ", "a", "n", "d", " ", "t", ".", "m", "e", "/", "c", "r", "y", "p", "t", "o", "t", "o", "n", "_", "n", "e", "w", "s">>,
       <<" ", "h", "t", "t", "p", "s", ":", "/", "/", "t", ".", "m", "e", "/", "+", "A", "b", "C", "-", "1">>,
       <<" ", "t", ".", "m", "e", "/", "j", "o", "i", "n", "c", "h", "a", "t", "/", "x", "Y", "_", "9">>,
       <<" ", "@", "t", "o", "n", "x">> >>

\* the texts of one to MaxFragments pieces
LinkTexts ==
    UNION { { Concat([i \in 1..n |-> Fragments[f[i]]]) : f \in [1..n -> 1..Len(Fragments)] } :
              n \in 1..MaxFragments }

InitLinks ==
    /\ links_in \in LinkTexts
    /\ links_out = <<>>
    /\ IdleLoop
    /\ IdleSweep
    /\ IdleAnalyzer
    /\ IdleHolders
    /\ IdleFetch
    /\ IdleCrawl

\* one call of _extract_channel_links on the text.  The order a set is listed
\* in follows from the hashes of its strings, seeded once per process, and
\* from the order of insertion: any order the first time, the same order when
\* the same process runs the same text again
ExtractChannelLinks ==
    /\ Len(links_out) < 2
    /\ \E returned \in extract_channel_links(links_in) :
          /\ links_out # <<>> /\ Range(returned) = Range(links_out[1]) => returned = links_out[1]
          /\ links_out' = Append(links_out, returned)
    /\ UNCHANGED links_in
    /\ UNCHANGED <<analyzerVars, holdersVars, fetchVars, crawlVars, loopVars, sweepVars>>

NextLinks == ExtractChannelLinks

SpecLinks == InitLinks /\ [][NextLinks]_vars

-----------------------------------------------------------------------------
(* The top-level loops: main.main_loop and TelegramSpider.monitor_channels.    *)
(* A cycle is a sequence of steps; each step is a function with its own        *)
(* try/except, and the loop body has one more around it                        *)

SCAN_INTERVAL == 600
MonitorInterval == 3600
Cooldown == 60

\* what a step left to the loop: the error sites it logged, and whether an
\* exception came out of it
Outcome(errors, raised) == [errors |-> errors, raised |-> raised]

\* scan_tokens without its handler: the exception reaches the loop
ScanTokensUnguarded(methods) ==
    IF "get_new_tokens" \notin methods
    THEN Outcome({}, TRUE)
    ELSE Outcome({}, FALSE)

\* main.scan_tokens, with no token newly listed.  It asks the parser for
\* get_new_tokens, a method MemepadParser does not have: the AttributeError is
\* caught and logged by the function's own handler
scan_tokens(methods) ==
    IF "get_new_tokens" \notin methods
    THEN Outcome({"scan_tokens"}, FALSE)
    ELSE Outcome({}, FALSE)

\* the channels of a crawl pass whose scan ended in the handler: get_entity
\* failed, or a message raised
FailedChannels(working_set, fetched) ==
    { working_set[i] : i \in { k \in 1..Len(working_set) :
                                  \/ working_set[k] \notin Range(fetched)
                                  \/ /\ \E m \in Range(MessagesOf(working_set[k])) :
                                            NamesIn(m) # <<>>
                                     /\ ~Constructs(TelegramMessageKeywords,
                                                    TelegramMessageColumns) } }

\* the error sites discover_new_channels logs at
DiscoveryErrors ==
    IF CHANNEL_DISCOVERY["enabled"] /\ ~HasKey(CHANNEL_DISCOVERY, "max_channels_total")
    THEN {"discover_new_channels"} ELSE {}

\* the error sites parse_external_chats logs at
CrawlErrors(working_set, fetched) ==
    IF FailedChannels(working_set, fetched) # {} THEN {"parse_external_chats"} ELSE {}

\* the first step of a cycle, and the sleep that ends a cycle without an error
\* reaching the loop
FirstStep(l) == IF l = "main_loop" THEN "scan_tokens" ELSE "discover_new_channels"
Interval(l) == IF l = "main_loop" THEN SCAN_INTERVAL ELSE MonitorInterval

\* datetime.now().weekday(), day 0 being a Monday
Weekday(today) == today % 7

\* the log with one more step of the current cycle
Logged(step, outcome) ==
    Append(cycle_log, [cycle |-> cycle, step |-> step, errors |-> outcome.errors])

\* where the loop goes after a step: into its handler when the step raised
After(outcome, next) == IF outcome.raised THEN "cooldown" ELSE next

MaxCycles == 2

InitLoop ==
    /\ loop \in {"main_loop", "monitor_channels"}
    /\ pc = "setup"
    /\ cycle = 0
    /\ cycle_log = <<>>
    /\ asleep = 0
    /\ channels \in { <<>>, AgedTable }
    /\ active_channels = <<>>
    /\ client = FALSE
    /\ potential_tokens = <<>>
    /\ alerts = <<>>
    /\ mentions_seen = <<>>
    /\ last_call = NoCall
    /\ calls = 0
    /\ channel_alerts = <<>>
    /\ notification_bot = FALSE
    /\ IdleLinks
    /\ IdleSweep
    /\ IdleAnalyzer
    /\ IdleHolders
    /\ IdleFetch

\* main.setup, or the connect at the head of monitor_channels: the client is
\* started and the working set loaded; then the first cycle begins
Setup ==
    /\ pc = "setup"
    /\ \E down \in DownSets :
          LET loaded == load_active_channels(channels, down)
          IN  /\ channels' = loaded.table
              /\ active_channels' = loaded.active_channels
    /\ client' = TRUE
    /\ last_call' = Call("connect", <<>>, <<>>, <<>>, <<>>, [t |-> "bool", v |-> TRUE])
    /\ pc' = FirstStep(loop)
    /\ cycle' = 1
    /\ UNCHANGED <<loop, cycle_log, asleep>>
    /\ UNCHANGED <<potential_tokens, alerts, mentions_seen, calls, channel_alerts,
                   notification_bot>>
    /\ UNCHANGED <<analyzerVars, holdersVars, fetchVars, linkVars, sweepVars>>

\* main_loop: await scan_tokens()
LoopScanTokens ==
    /\ pc = "scan_tokens"
    /\ cycle_log' = Logged("scan_tokens", scan_tokens(MemepadParserMethods))
    /\ pc' = After(scan_tokens(MemepadParserMethods), "check_external_tokens")
    /\ UNCHANGED <<loop, cycle, asleep>>
    /\ UNCHANGED <<analyzerVars, holdersVars, fetchVars, crawlVars, linkVars, sweepVars>>

\* the step after check_external_tokens: the cleanup on a Monday, the
\* statistics in the first hour of a day, else the sleep
AfterCheck(today, midnight) ==
    IF Weekday(today) = 0 THEN "clean_old_channels"
    ELSE IF midnight THEN "channel_stats"
    ELSE "sleep"

\* main_loop: await check_external_tokens().  Everything in the function is
\* inside its try block
LoopCheckExternalTokens ==
    /\ pc = "check_external_tokens"
    /\ \E outcome \in QuietOutcomes, down \in DownSets :
          \E d \in { discover_new_channels(channels, potential_tokens, active_channels,
                                           now, outcome, down, TRUE) } :
             \E r \in { parse_external_chats(d.table, d.tokens, d.active_channels,
                                             now, down) } :
                CheckedExternal(d, r)
    /\ cycle_log' = Logged("check_external_tokens",
                           Outcome(DiscoveryErrors
                                      \cup CrawlErrors(active_channels', last_call'.fetched),
                                   FALSE))
    /\ \E midnight \in BOOLEAN : pc' = AfterCheck(now, midnight)
    /\ UNCHANGED <<loop, cycle, asleep>>
    /\ UNCHANGED <<client, calls>>
    /\ UNCHANGED <<analyzerVars, holdersVars, fetchVars, linkVars, sweepVars>>

\* main_loop: await clean_old_channels(), on a Monday
LoopCleanOldChannels ==
    /\ pc = "clean_old_channels"
    /\ channels' = clean_old_channels(channels, now)
    /\ last_call' = Call("clean_old_channels", <<>>, <<>>, <<>>, <<>>, None)
    /\ cycle_log' = Logged("clean_old_channels", Outcome({}, FALSE))
    /\ \E midnight \in BOOLEAN : pc' = IF midnight THEN "channel_stats" ELSE "sleep"
    /\ UNCHANGED <<loop, cycle, asleep>>
    /\ UNCHANGED <<active_channels, client, potential_tokens, alerts, mentions_seen, calls,
                   channel_alerts, notification_bot>>
    /\ UNCHANGED <<analyzerVars, holdersVars, fetchVars, linkVars, sweepVars>>

\* main_loop: await channel_stats(), which only reads and logs
LoopChannelStats ==
    /\ pc = "channel_stats"
    /\ cycle_log' = Logged("channel_stats", Outcome({}, FALSE))
    /\ pc' = "sleep"
    /\ UNCHANGED <<loop, cycle, asleep>>
    /\ UNCHANGED <<analyzerVars, holdersVars, fetchVars, crawlVars, linkVars, sweepVars>>

\* monitor_channels: await self.discover_new_channels(), with no notification bot
LoopDiscoverNewChannels ==
    /\ pc = "discover_new_channels"
    /\ \E outcome \in QuietOutcomes, down \in DownSets :
          \E d \in { discover_new_channels(channels, potential_tokens, active_channels,
                                           now, outcome, down, FALSE) } :
             Discovered(d)
    /\ notification_bot' = FALSE
    /\ cycle_log' = Logged("discover_new_channels", Outcome(DiscoveryErrors, FALSE))
    /\ pc' = "parse_external_chats"
    /\ UNCHANGED <<loop, cycle, asleep>>
    /\ UNCHANGED <<client, alerts, calls>>
    /\ UNCHANGED <<analyzerVars, holdersVars, fetchVars, linkVars, sweepVars>>

\* monitor_channels: await self.parse_external_chats()
LoopParseExternalChats ==
    /\ pc = "parse_external_chats"
    /\ \E down \in DownSets :
          \E r \in { parse_external_chats(channels, potential_tokens, active_channels,
                                          now, down) } :
             ParsedExternal(r)
    /\ cycle_log' = Logged("parse_external_chats",
                           Outcome(CrawlErrors(active_channels, last_call'.fetched), FALSE))
    /\ pc' = "sleep"
    /\ UNCHANGED <<loop, cycle, asleep>>
    /\ UNCHANGED <<active_channels, client, alerts, calls, channel_alerts, notification_bot>>
    /\ UNCHANGED <<analyzerVars, holdersVars, fetchVars, linkVars, sweepVars>>

\* the sleep that ends a cycle: the interval, or the cooldown of the loop's
\* handler when an exception reached it; then the next cycle begins
LoopSleeps ==
    /\ pc \in {"sleep", "cooldown"}
    /\ cycle < MaxCycles
    /\ asleep' = IF pc = "cooldown" THEN Cooldown ELSE Interval(loop)
    /\ pc' = FirstStep(loop)
    /\ cycle' = cycle + 1
    /\ UNCHANGED <<loop, cycle_log>>
    /\ UNCHANGED <<analyzerVars, holdersVars, fetchVars, crawlVars, linkVars, sweepVars>>

\* a day goes by while the loop runs
LoopDayPasses ==
    /\ pc # "setup"
    /\ now < MaxDays
    /\ now' = now + 1
    /\ UNCHANGED <<jetton_data, nlp_pipeline, result, assessed_at>>
    /\ UNCHANGED <<holdersVars, fetchVars, crawlVars, stepVars>>

NextLoop ==
    \/ Setup
    \/ LoopScanTokens
    \/ LoopCheckExternalTokens
    \/ LoopCleanOldChannels
    \/ LoopChannelStats
    \/ LoopDiscoverNewChannels
    \/ LoopParseExternalChats
    \/ LoopSleeps
    \/ LoopDayPasses

SpecLoop == InitLoop /\ [][NextLoop]_vars

\* the positions of the loops
Positions ==
    {"setup", "scan_tokens", "check_external_tokens", "clean_old_channels", "channel_stats",
     "discover_new_channels", "parse_external_chats", "sleep", "cooldown"}

\* the loop moves on from where it is; only the bound on the cycles stops it
Resumed ==
    /\ ~(pc \in {"sleep", "cooldown"} /\ cycle >= MaxCycles)
    /\ pc' \in Positions
    /\ pc' # pc

\* every await of the loop completes: a step returns, a sleep ends, and the
\* event loop runs the coroutine on
SpecLoopFair == InitLoop /\ [][NextLoop]_vars /\ WF_pc(Resumed)

-----------------------------------------------------------------------------
(* The spider's operations followed request by request: every call to the      *)
(* Telegram client is an await, where the event loop may run the bot's polling *)
(* task until the answer is there                                              *)

\* a request handed to the Telegram client
Request(kind, target) == [kind |-> kind, target |-> target]

\* the requests of a whole list handed over together
Gathered(kind, names) == { Request(kind, names[i]) : i \in DOMAIN names }

\* the request for the first name of a list, awaited before anything else is
\* done: the loops of the spider await each call in turn
Awaited(kind, names) == { Request(kind, names[1]) }

\* what the coroutine leaves as it suspends: where it is, the requests it
\* waits for, and the working set
Ran(co, requests, working_set) ==
    [coroutine |-> co, in_flight |-> requests, active_channels |-> working_set]

\* the working set with a registered channel appended if it is not in it
Appended(working_set, channel_name) ==
    IF \E i \in 1..Len(working_set) : working_set[i] = channel_name
    THEN working_set ELSE Append(working_set, channel_name)

\* the chats of a search result not found before
RECURSIVE NotFound(_, _)
NotFound(chats, found_channels) ==
    IF Len(chats) = 0 THEN <<>>
    ELSE IF \E i \in 1..Len(found_channels) : found_channels[i] = chats[1]
    THEN NotFound(Tail(chats), found_channels)
    ELSE <<chats[1]>> \o NotFound(Tail(chats), Append(found_channels, chats[1]))

\* the head of the operation's loop: the next keyword is searched for, the
\* next channel of the working set resolved; the operation returns when none
\* is left
NextInQueue(co, working_set) ==
    IF Len(co.queue) = 0
    THEN Ran([co EXCEPT !.at = "returned"], {}, working_set)
    ELSE IF co.op = "parse_external_chats"
    THEN Ran([co EXCEPT !.at = "get_entity"], Awaited("resolve", co.queue), working_set)
    ELSE Ran([co EXCEPT !.at = "search"], Awaited("search", co.queue), working_set)

\* the chats of a search result are registered one after the other: a stored
\* channel needs no request, for another add_channel_to_db awaits get_entity;
\* after the last one the sweep sleeps its two seconds
RECURSIVE RegisterNext(_, _, _)
RegisterNext(co, table, working_set) ==
    IF Len(co.pending) = 0
    THEN Ran([co EXCEPT !.at = "delay"], {}, working_set)
    ELSE IF co.pending[1] \in DOMAIN table
    THEN RegisterNext([co EXCEPT !.pending = Tail(@)], table,
                      Appended(working_set, co.pending[1]))
    ELSE Ran([co EXCEPT !.at = "add_channel_to_db"], Awaited("resolve", co.pending),
             working_set)

\* the coroutine as an operation is called
Called(op, working_set, down) ==
    [at |-> "called", op |-> op,
     queue |-> IF op = "parse_external_chats" THEN working_set ELSE CHANNEL_SEARCH_KEYWORDS,
     pending |-> <<>>, found_channels |-> <<>>, down |-> down]

\* the operations of the spider that talk to Telegram
SpiderOperations ==
    {"search_channels_by_keywords", "parse_external_chats", "discover_new_channels"}

\* how SearchGlobalRequest can be answered
SearchAnswers == {"results", "flood", "error"}

\* the coroutine has run on to its next await
Applied(r) ==
    /\ coroutine' = r.coroutine
    /\ in_flight' = r.in_flight
    /\ active_channels' = r.active_channels

MaxSweeps == 1

InitSweep ==
    /\ \E table \in { <<>>, ExampleTable } :
          /\ channels = load_active_channels(table, {}).table
          /\ active_channels = load_active_channels(table, {}).active_channels
    /\ client = TRUE
    /\ potential_tokens = <<>>
    /\ alerts = <<>>
    /\ mentions_seen = <<>>
    /\ last_call = NoCall
    /\ calls = 0
    /\ channel_alerts = <<>>
    /\ notification_bot = FALSE
    /\ IdleSweep
    /\ IdleLinks
    /\ IdleLoop
    /\ IdleAnalyzer
    /\ IdleHolders
    /\ IdleFetch

\* an operation of the spider is called and runs to its first await;
\* discover_new_channels raises on the missing configuration key before any
\* request
SpiderCalled ==
    /\ coroutine.at \in {"idle", "returned"}
    /\ calls < MaxSweeps
    /\ calls' = calls + 1
    /\ \E op \in SpiderOperations, down \in DownSets :
          IF op = "discover_new_channels" /\ DiscoveryErrors # {}
          THEN Applied(Ran([Called(op, active_channels, down) EXCEPT !.at = "returned",
                                                                      !.queue = <<>>],
                           {}, active_channels))
          ELSE Applied(NextInQueue(Called(op, active_channels, down), active_channels))
    /\ UNCHANGED <<channels, client, potential_tokens, alerts, mentions_seen, last_call,
                   channel_alerts, notification_bot, polling>>
    /\ UNCHANGED <<analyzerVars, holdersVars, fetchVars, linkVars, loopVars>>

\* SearchGlobalRequest is answered: with chats, which are registered; with a
\* FloodWaitError, and the sweep sleeps the seconds it names; or with another
\* error, and the sweep goes to the next keyword
SearchAnswered ==
    /\ coroutine.at = "search"
    /\ \E request \in in_flight, answer \in SearchAnswers :
          CASE answer = "flood" ->
                 Applied(Ran([coroutine EXCEPT !.at = "flood_wait"], {}, active_channels))
            [] answer = "error" ->
                 Applied(NextInQueue([coroutine EXCEPT !.queue = Tail(@)], active_channels))
            [] OTHER ->
                 Applied(RegisterNext(
                     [coroutine EXCEPT
                         !.pending = NotFound(SearchResults(request.target),
                                              coroutine.found_channels),
                         !.found_channels = @ \o NotFound(SearchResults(request.target),
                                                          coroutine.found_channels)],
                     channels, active_channels))
    /\ UNCHANGED <<channels, client, potential_tokens, alerts, mentions_seen, last_call,
                   calls, channel_alerts, notification_bot, polling>>
    /\ UNCHANGED <<analyzerVars, holdersVars, fetchVars, linkVars, loopVars>>

\* add_channel_to_db: get_entity is answered; for a channel the full channel
\* is asked for next, anything else is skipped
EntityAnswered ==
    /\ coroutine.at = "add_channel_to_db"
    /\ \E request \in in_flight :
          IF Resolves(request.target, coroutine.down)
          THEN Applied(Ran([coroutine EXCEPT !.at = "get_full_channel"],
                           Awaited("full_channel", coroutine.pending), active_channels))
          ELSE Applied(RegisterNext([coroutine EXCEPT !.pending = Tail(@)], channels,
                                    active_channels))
    /\ UNCHANGED <<channels, client, potential_tokens, alerts, mentions_seen, last_call,
                   calls, channel_alerts, notification_bot, polling>>
    /\ UNCHANGED <<analyzerVars, holdersVars, fetchVars, linkVars, loopVars>>

\* add_channel_to_db: GetFullChannelRequest is answered, the row is stored and
\* the channel joins the working set
FullChannelAnswered ==
    /\ coroutine.at = "get_full_channel"
    /\ \E request \in in_flight :
          /\ channels' = add_channel_to_db(channels, request.target, "keyword_search",
                                           coroutine.down).table
          /\ Applied(RegisterNext([coroutine EXCEPT !.pending = Tail(@)], channels',
                                  Appended(active_channels, request.target)))
    /\ UNCHANGED <<client, potential_tokens, alerts, mentions_seen, last_call,
                   calls, channel_alerts, notification_bot, polling>>
    /\ UNCHANGED <<analyzerVars, holdersVars, fetchVars, linkVars, loopVars>>

\* the sleep of the sweep ends, the rate-limit wait or the delay after a
\* search: the next keyword is searched for
SleepEnds ==
    /\ coroutine.at \in {"flood_wait", "delay"}
    /\ Applied(NextInQueue([coroutine EXCEPT !.queue = Tail(@)], active_channels))
    /\ UNCHANGED <<channels, client, potential_tokens, alerts, mentions_seen, last_call,
                   calls, channel_alerts, notification_bot, polling>>
    /\ UNCHANGED <<analyzerVars, holdersVars, fetchVars, linkVars, loopVars>>

\* parse_external_chats: get_entity is answered; the messages are asked for,
\* or the handler goes to the next channel
ResolveAnswered ==
    /\ coroutine.at = "get_entity"
    /\ \E request \in in_flight :
          IF Reachable(request.target, coroutine.down)
          THEN Applied(Ran([coroutine EXCEPT !.at = "get_messages"],
                           Awaited("fetch", coroutine.queue), active_channels))
          ELSE Applied(NextInQueue([coroutine EXCEPT !.queue = Tail(@)], active_channels))
    /\ UNCHANGED <<channels, client, potential_tokens, alerts, mentions_seen, last_call,
                   calls, channel_alerts, notification_bot, polling>>
    /\ UNCHANGED <<analyzerVars, holdersVars, fetchVars, linkVars, loopVars>>

\* what the scan of one channel left
ChannelScanned(r) ==
    /\ channels' = r.table
    /\ potential_tokens' = r.tokens
    /\ mentions_seen' = Counted(mentions_seen, r.mentioned)

\* parse_external_chats: get_messages is answered, the messages are processed
\* and committed, and the next channel is resolved
MessagesAnswered ==
    /\ coroutine.at = "get_messages"
    /\ \E request \in in_flight :
          ChannelScanned(parse_external_chats(channels, potential_tokens,
                                              <<request.target>>, now, coroutine.down))
    /\ Applied(NextInQueue([coroutine EXCEPT !.queue = Tail(@)], active_channels))
    /\ UNCHANGED <<client, alerts, last_call, calls, channel_alerts, notification_bot,
                   polling>>
    /\ UNCHANGED <<analyzerVars, holdersVars, fetchVars, linkVars, loopVars>>

\* the bot's polling task runs while the spider is suspended: an update
\* arrives and its handler answers; no handler calls the spider
BotPolls ==
    /\ polling' = IF polling = "waiting" THEN "handling" ELSE "waiting"
    /\ UNCHANGED <<coroutine, in_flight>>
    /\ UNCHANGED <<analyzerVars, holdersVars, fetchVars, crawlVars, linkVars, loopVars>>

NextSweep ==
    \/ SpiderCalled
    \/ SearchAnswered
    \/ EntityAnswered
    \/ FullChannelAnswered
    \/ SleepEnds
    \/ ResolveAnswered
    \/ MessagesAnswered
    \/ BotPolls

SpecSweep == InitSweep /\ [][NextSweep]_vars

-----------------------------------------------------------------------------
(* What the claims speak of: the inputs of the five sub-analyzers and the      *)
(* sub-scores of the profile, on the day of the assessment                     *)

Returned == result.t = "returned"

SocialsInput == Get(jetton_data.details.v, "socials", PyList(<<>>))
HoldersInput == Get(jetton_data.details.v, "holders", PyList(<<>>))
DescriptionInput == Get(jetton_data.details.v, "description", PyStr(<<>>))

FakeChannelSubScore == IF check_fake_channel(SocialsInput, assessed_at).is_fake THEN Pct(80) ELSE 0
HoldersSubScore == analyze_holders(HoldersInput).score
LiquiditySubScore == analyze_liquidity(jetton_data.stonfi_data).score
TransactionsSubScore == analyze_transactions(jetton_data.transactions).score
DescriptionSubScore == analyze_description(DescriptionInput, nlp_pipeline).score

\* C1: the returned scam_score is the sum of the five sub-scores divided by 5,
\* the fake-channel sub-score being 0.8 when flagged and 0 when not.
C1_MeanOfFive ==
    Returned =>
        5 * result.scam_score =
            FakeChannelSubScore + HoldersSubScore + LiquiditySubScore
              + TransactionsSubScore + DescriptionSubScore

\* C2: every sub-score that entered the mean lies in [0,1], and so does the
\* returned scam_score.
C2_ScoresInUnitInterval ==
    Returned =>
        /\ \A i \in 1..Len(result.risk_scores) :
              0 <= result.risk_scores[i] /\ result.risk_scores[i] <= Pct(100)
        /\ 0 <= result.scam_score /\ result.scam_score <= Pct(100)

C2_Witness ==
    /\ Returned
    /\ Len(result.risk_scores) = 5
    /\ result.risk_scores[2] = Pct(95)
    /\ result.scam_score > Pct(75)

\* C3: is_scam is true exactly when the returned scam_score is at least 0.75.
C3_DecisionAtThreshold ==
    Returned => (result.is_scam <=> result.scam_score >= 7500)

C3_Witness ==
    /\ Returned
    /\ result.scam_score = 7500
    /\ result.is_scam

\* C5: no value get_complete_jetton_data can return makes analyze_jetton raise.
C5_NeverRaises == result.t # "raised"

\* the entry of risk_scores that sub-analyzer k of the last four appended
\* (1 holders, 2 liquidity, 3 transactions, 4 description)
ScoreEntry(k) == result.risk_scores[Len(result.risk_scores) - 4 + k]

ChannelReasons ==
    { f \in Range(result.risk_factors) :
        f[1] \in {"channel_description_contains", "channel_created_recently", "no_channel_data"} }

\* C4 as claimed: each of the five sub-analyzers, fake-channel included, turns a
\* missing or empty input into a sub-score of exactly 0.5 and a reason.
C4_FiveNeutralOnMissing ==
    Returned =>
        /\ ~Truthy(SocialsInput) =>
              /\ Len(result.risk_scores) = 5
              /\ result.risk_scores[1] = Pct(50)
              /\ ChannelReasons # {}
        /\ ~Truthy(HoldersInput) =>
              ScoreEntry(1) = Pct(50) /\ <<"no_holder_data">> \in Range(result.risk_factors)
        /\ ~Truthy(jetton_data.stonfi_data) =>
              ScoreEntry(2) = Pct(50) /\ <<"no_liquidity_data">> \in Range(result.risk_factors)
        /\ ~Truthy(jetton_data.transactions) =>
              ScoreEntry(3) = Pct(50) /\ <<"no_transaction_data">> \in Range(result.risk_factors)
        /\ ~Truthy(DescriptionInput) =>
              ScoreEntry(4) = Pct(50) /\ <<"no_description">> \in Range(result.risk_factors)

\* C4 amended: holders, liquidity, transactions and description each turn a
\* missing or empty input into a sub-score of exactly 0.5 and a reason; the
\* fake-channel check on an empty or absent socials list flags nothing: it
\* contributes 0 to the sum of sub-scores, not 0.5, and no reason.
C4_FourNeutralOnMissing ==
    Returned =>
        /\ ~Truthy(SocialsInput) =>
              /\ SumSeq(result.risk_scores) =
                    ScoreEntry(1) + ScoreEntry(2) + ScoreEntry(3) + ScoreEntry(4)
              /\ ChannelReasons = {}
        /\ ~Truthy(HoldersInput) =>
              ScoreEntry(1) = Pct(50) /\ <<"no_holder_data">> \in Range(result.risk_factors)
        /\ ~Truthy(jetton_data.stonfi_data) =>
              ScoreEntry(2) = Pct(50) /\ <<"no_liquidity_data">> \in Range(result.risk_factors)
        /\ ~Truthy(jetton_data.transactions) =>
              ScoreEntry(3) = Pct(50) /\ <<"no_transaction_data">> \in Range(result.risk_factors)
        /\ ~Truthy(DescriptionInput) =>
              ScoreEntry(4) = Pct(50) /\ <<"no_description">> \in Range(result.risk_factors)

C4_Witness ==
    /\ Returned
    /\ ~Truthy(SocialsInput) /\ ~Truthy(HoldersInput) /\ ~Truthy(DescriptionInput)
    /\ jetton_data.stonfi_data = EmptyDict
    /\ ~Truthy(jetton_data.transactions)
    /\ result.risk_scores = <<Pct(50), Pct(50), Pct(50), Pct(50)>>

IsScenarioA ==
    /\ jetton_data.details = DetailsOf(HolderList(<<60, 20, 5, 5, 5>>), Absent, Absent)
    /\ jetton_data.stonfi_data = PyDict([liquidity |-> PyDict([usd |-> 500])])
    /\ jetton_data.transactions = TransactionList(2)

\* C7: scenario A (holders 60/20/5/5/5, liquidity 500, 2 transactions, no
\* description, no socials) scores holders 0.95, liquidity 0.8, transactions
\* 0.6, description 0.5, fake-channel 0, final 0.57, and is not a scam.
C7_ScenarioA ==
    (IsScenarioA /\ result # NoResult) =>
        /\ Returned
        /\ HoldersSubScore = Pct(95)
        /\ LiquiditySubScore = Pct(80)
        /\ TransactionsSubScore = Pct(60)
        /\ DescriptionSubScore = Pct(50)
        /\ FakeChannelSubScore = 0
        /\ result.scam_score = Pct(57)
        /\ ~result.is_scam

IsScenarioB ==
    /\ jetton_data.details =
          DetailsOf(HolderList(<<60, 20, 5, 5, 5>>), PyStr(TextScenarioB), Absent)
    /\ jetton_data.stonfi_data = PyDict([liquidity |-> PyDict([usd |-> 100])])
    /\ jetton_data.transactions = TransactionList(3)

\* C8: scenario B (same holders, liquidity 100, 3 transactions, no socials,
\* description "100x guaranteed profit") matches the scam-pattern list, scores
\* description 0.7, fake-channel 0, holders 0.95, liquidity 0.8, transactions
\* 0.6, final 0.61, and is not a scam.
C8_ScenarioB ==
    (IsScenarioB /\ result # NoResult) =>
        /\ Returned
        /\ FirstPattern(TextScenarioB) # 0
        /\ DescriptionSubScore = Pct(70)
        /\ FakeChannelSubScore = 0
        /\ HoldersSubScore = Pct(95)
        /\ LiquiditySubScore = Pct(80)
        /\ TransactionsSubScore = Pct(60)
        /\ result.scam_score = Pct(61)
        /\ ~result.is_scam

-----------------------------------------------------------------------------
(* Claims on analyze_holders *)

IsSortedDesc(h) == \A i \in 1..(Len(h) - 1) : Percent(h[i]) >= Percent(h[i + 1])

\* the largest percentage any holder of the list has
TopHolder(h) == CHOOSE p \in { Percent(h[i]) : i \in 1..Len(h) } :
                    \A i \in 1..Len(h) : Percent(h[i]) <= p

RECURSIVE SumPercents(_)
SumPercents(h) == IF Len(h) = 0 THEN 0 ELSE Percent(h[1]) + SumPercents(Tail(h))

TopFiveSum(h) == SumPercents(SubSeq(h, 1, Min(5, Len(h))))

HoldersAnalyzedSorted == holders_out # NoResult /\ IsSortedDesc(holders_in.v)

\* C6 as claimed: on a non-empty list sorted descending, top holder >= 50%
\* gives at least 0.95, top holder in (30,50]% at least 0.7, top-5 sum > 90%
\* at least 0.8, fewer than 10 holders at least 0.6.
C6_HolderFloorsFrom50 ==
    HoldersAnalyzedSorted =>
        /\ TopHolder(holders_in.v) >= 50 => holders_out.score >= Pct(95)
        /\ (TopHolder(holders_in.v) > 30 /\ TopHolder(holders_in.v) <= 50) => holders_out.score >= Pct(70)
        /\ TopFiveSum(holders_in.v) > 90 => holders_out.score >= Pct(80)
        /\ Len(holders_in.v) < 10 => holders_out.score >= Pct(60)

\* C6 amended: on a non-empty list sorted descending, top holder > 50% gives
\* at least 0.95, top holder in (30,50]% at least 0.7, top-5 sum > 90% at
\* least 0.8, fewer than 10 holders at least 0.6.
C6_HolderFloorsAbove50 ==
    HoldersAnalyzedSorted =>
        /\ TopHolder(holders_in.v) > 50 => holders_out.score >= Pct(95)
        /\ (TopHolder(holders_in.v) > 30 /\ TopHolder(holders_in.v) <= 50) => holders_out.score >= Pct(70)
        /\ TopFiveSum(holders_in.v) > 90 => holders_out.score >= Pct(80)
        /\ Len(holders_in.v) < 10 => holders_out.score >= Pct(60)

\* a sorted list of fewer than 10 holders, the top one above 50% and the top
\* five above 90%, was scored 0.95
C6_Witness ==
    /\ HoldersAnalyzedSorted
    /\ TopHolder(holders_in.v) > 50
    /\ TopFiveSum(holders_in.v) > 90
    /\ Len(holders_in.v) < 10
    /\ holders_out.score = Pct(95)

-----------------------------------------------------------------------------
(* Claims on the Fetch Orchestrator *)

\* the empty/absent value coroutine f stands for
Degraded(f) ==
    CASE f \in {"fetch_jetton_details", "fetch_stonfi_data"} -> None
      [] f = "fetch_reactions" -> EmptyDict
      [] f \in {"fetch_transactions", "fetch_jettons"} -> PyList(<<>>)

\* what a 200 answer carries for coroutine f
Payload(f, body) ==
    CASE f = "fetch_transactions" -> body.v.transactions
      [] f = "fetch_jettons" -> body.v.jettons
      [] OTHER -> body

Failed(resp) == resp.kind = "error" \/ resp.status # 200

\* C10: whatever subset of sources fails, the orchestration returns normally,
\* only after every coroutine has run to completion, each failed source's
\* result being its empty/absent value and each other source's result its own
\* answer.
C10_PartialFailureTolerated ==
    /\ gathered.t # "raised"
    /\ gathered.t = "returned" =>
          \A i \in 1..Len(tasks) :
              /\ tasks[i].state = "done"
              /\ tasks[i].value =
                    IF Failed(tasks[i].resp)
                    THEN Degraded(Coroutines(fetch_kind)[i])
                    ELSE Payload(Coroutines(fetch_kind)[i], tasks[i].resp.body)

\* get_complete_jetton_data returned although the detail fetch met a network
\* failure and the transaction fetch a non-200 answer
C10_Witness ==
    /\ fetch_kind = "complete"
    /\ gathered.t = "returned"
    /\ tasks[1].resp.kind = "error"
    /\ tasks[3].resp = Http(500, EmptyDict)
    /\ ~Failed(tasks[2].resp) /\ ~Failed(tasks[4].resp)
    /\ gathered.value.v.details = None
    /\ gathered.value.v.transactions = PyList(<<>>)
    /\ gathered.value.v.stonfi_data = tasks[4].resp.body


\* C11: get_complete_jetton_data returns only once all four retrievals have
\* completed, and each key of its result holds the value its own source's
\* fetch returned, whatever the order the four completed in.
C11_KeyedBySource ==
    (fetch_kind = "complete" /\ gathered.t = "returned") =>
        /\ \A i \in 1..4 : tasks[i].state = "done"
        /\ Len(completed) = 4
        /\ gathered.value.v.details = fetch_jetton_details(tasks[1].resp)
        /\ gathered.value.v.reactions = fetch_reactions(tasks[2].resp)
        /\ gathered.value.v.transactions = fetch_transactions(tasks[3].resp)
        /\ gathered.value.v.stonfi_data = fetch_stonfi_data(tasks[4].resp)

\* the four sources answered in the reverse of the order they were asked in,
\* each with an answer of its own, and the result is keyed by source
C11_Witness ==
    /\ fetch_kind = "complete"
    /\ gathered.t = "returned"
    /\ completed = <<4, 3, 2, 1>>
    /\ \A i \in 1..4 : ~Failed(tasks[i].resp)
    /\ gathered.value.v.details = tasks[1].resp.body
    /\ gathered.value.v.details.t = "dict"
    /\ gathered.value.v.reactions = tasks[2].resp.body
    /\ gathered.value.v.transactions = tasks[3].resp.body.v.transactions
    /\ Len(gathered.value.v.transactions.v) = 3
    /\ gathered.value.v.stonfi_data = tasks[4].resp.body
    /\ gathered.value.v.stonfi_data.t = "dict"

\* every listed entry, in endpoint declaration order and then list position
ListedEntries == Concat([i \in 1..Len(tasks) |-> tasks[i].value.v])

HasAddress(jetton) == Truthy(Get(jetton, "address", None))

\* the positions of listed holding the first entry of their address
FirstSeen(listed) ==
    { i \in 1..Len(listed) :
        /\ HasAddress(listed[i])
        /\ \A j \in 1..(i - 1) : Get(listed[j], "address", None) # listed[i].address }

\* C12: the list fetch_all_jettons returns holds no address twice; the entry
\* kept for an address is the first in endpoint declaration order, then list
\* position; the list follows that order; whatever order the six retrievals
\* completed in.
C12_FirstSeenWins ==
    (fetch_kind = "all" /\ gathered.t = "returned") =>
        LET merged == gathered.value.v
            listed == ListedEntries
            first == FirstSeen(listed)
        IN  /\ \A i \in 1..6 : tasks[i].state = "done"
            /\ \A k \in 1..Len(merged) : HasAddress(merged[k])
            /\ \A k, l \in 1..Len(merged) : k # l => merged[k].address # merged[l].address
            /\ Len(merged) = Cardinality(first)
            /\ \A i \in first :
                  merged[Cardinality({ j \in first : j <= i })] = listed[i]

\* the six listings arrived in the reverse of declaration order, the first
\* endpoint failed, and the merged list keeps B and C of the second endpoint
\* and A of the third
C12_Witness ==
    /\ fetch_kind = "all"
    /\ gathered.t = "returned"
    /\ completed = <<6, 5, 4, 3, 2, 1>>
    /\ Failed(tasks[1].resp)
    /\ \A i \in 2..6 : ~Failed(tasks[i].resp)
    /\ gathered.value.v = << Jetton(PyStr(<<"B">>), 2), Jetton(PyStr(<<"C">>), 2),
                             Jetton(PyStr(<<"A">>), 3) >>

-----------------------------------------------------------------------------
(* Claims on the channel engine *)

\* the retirement rule as the specification words it: active, relevance below
\* 0.3, last scanned more than 30 days before today
RetirementRule(channel, today) ==
    /\ channel.is_active
    /\ channel.relevance_score < Thousandths(300)
    /\ channel.last_scanned_at # None
    /\ today - channel.last_scanned_at.day > 30

\* the usernames whose row is flagged inactive
RetiredChannels == { n \in DOMAIN channels : ~channels[n].is_active }

\* C13: once a channel's active flag is false no operation sets it back to
\* true, and the flag turns false only in a cleanup pass, on a channel that was
\* active and that the retirement rule selects; a row that is inserted is
\* active.
C13_NeverReactivated ==
    [][ /\ \A n \in DOMAIN channels :
              /\ n \in DOMAIN channels'
              /\ ~channels[n].is_active => ~channels'[n].is_active
              /\ channels[n].is_active /\ ~channels'[n].is_active =>
                    /\ last_call'.op = "clean_old_channels"
                    /\ RetirementRule(channels[n], now)
        /\ \A n \in DOMAIN channels' \ DOMAIN channels : channels'[n].is_active
      ]_vars

\* a retired channel has just been handed to add_channel_to_db again, as a
\* token's Telegram social, and its row came back still retired
C13_Witness ==
    /\ last_call.op = "parse_token_chats"
    /\ \E n \in RetiredChannels : n \in Range(last_call.returned.v)

\* C14: a retired channel is excluded from all future crawling: neither
\* parse_external_chats nor the unscanned-channel sweep fetches the messages of
\* a channel whose active flag is false.
C14_RetiredNeverCrawled ==
    last_call.op \in {"parse_external_chats", "discover_new_channels", "check_external_tokens"}
        => \A n \in RetiredChannels : n \notin Range(last_call.fetched)

\* C15: a cleanup pass flags inactive exactly the channels the retirement rule
\* selects (active, relevance below 0.3, last scanned more than 30 days ago);
\* it changes no other field, no other channel, and deletes no row.
C15_CleanupExact ==
    [][ last_call'.op = "clean_old_channels" /\ calls' = calls + 1 =>
            /\ DOMAIN channels' = DOMAIN channels
            /\ \A n \in DOMAIN channels :
                  channels'[n] = IF RetirementRule(channels[n], now)
                                 THEN [channels[n] EXCEPT !.is_active = FALSE]
                                 ELSE channels[n]
      ]_vars

\* a cleanup pass has retired a channel and left active one scanned exactly 30
\* days ago, one with relevance exactly 0.3, and one never scanned
C15_Witness ==
    /\ last_call.op = "clean_old_channels"
    /\ RetiredChannels # {}
    /\ \E n \in DOMAIN channels :
          /\ channels[n].is_active
          /\ channels[n].relevance_score < Thousandths(300)
          /\ channels[n].last_scanned_at = Datetime(now - 30)
    /\ \E n \in DOMAIN channels :
          /\ channels[n].is_active
          /\ channels[n].relevance_score = Thousandths(300)
          /\ channels[n].last_scanned_at # None
          /\ channels[n].last_scanned_at.day < now - 30
    /\ \E n \in DOMAIN channels :
          /\ channels[n].is_active
          /\ channels[n].relevance_score < Thousandths(300)
          /\ channels[n].last_scanned_at = None

\* the number of channels flagged active
ActiveCount(table) == Cardinality({ n \in DOMAIN table : table[n].is_active })

\* C16: when the number of active channels is at or above the configured cap
\* as discover_new_channels starts, the call issues no keyword search, joins
\* and sweeps no channel, and creates or modifies no channel row.
C16_SkippedAtCap ==
    [][ /\ last_call'.op = "discover_new_channels"
        /\ calls' = calls + 1
        /\ ActiveCount(channels) >= CHANNEL_DISCOVERY["max_monitored_channels"]
        => /\ last_call'.searched = <<>>
           /\ last_call'.joined = <<>>
           /\ last_call'.fetched = <<>>
           /\ channels' = channels
      ]_vars

\* discovery has been called with exactly as many active channels as the cap
C16_Witness ==
    /\ last_call.op = "discover_new_channels"
    /\ ActiveCount(channels) = CHANNEL_DISCOVERY["max_monitored_channels"]

\* s without the elements that repeat the one before them
RECURSIVE Squeezed(_)
Squeezed(s) ==
    IF Len(s) <= 1 THEN s
    ELSE IF s[1] = s[2] THEN Squeezed(Tail(s))
    ELSE <<s[1]>> \o Squeezed(Tail(s))

\* the sleeps of a sweep taken on a rate-limit signal
FloodWaits(slept) == Cardinality({ i \in 1..Len(slept) : slept[i] = FloodSeconds })

\* C17: in the keyword sweep, a rate-limit signal on keyword k is followed by
\* a sleep of the provider's duration and then by the search for k again: the
\* requests issued are the keywords in order, one more request for each
\* rate-limit wait, the repeated request next to the one it repeats.
C17_RetrySameKeyword ==
    last_call.op = "search_channels_by_keywords" =>
        /\ Squeezed(last_call.searched) = CHANNEL_SEARCH_KEYWORDS
        /\ Len(last_call.searched)
              = Len(CHANNEL_SEARCH_KEYWORDS) + FloodWaits(last_call.slept)

\* C18: the confidence of a candidate token starts at 0.3 with the first
\* mention of its name, rises by 0.1 with each further mention and never
\* exceeds 1.0: a name the crawl has met in k messages has a candidate with
\* confidence min(1.0, 0.3 + 0.1 * (k - 1)).
C18_ConfidenceRises ==
    \A n \in DOMAIN mentions_seen :
        /\ n \in DOMAIN potential_tokens
        /\ potential_tokens[n].confidence_score
              = Min(Thousandths(1000),
                    Thousandths(300) + (mentions_seen[n] - 1) * Thousandths(100))

\* the number of alerts sent for a name
AlertsFor(n) == Cardinality({ i \in 1..Len(alerts) : alerts[i] = n })

\* a chat whose messages mention the name
Mentions(chat, n) ==
    \E i \in 1..Len(MessagesOf(chat)) :
        MessagesOf(chat)[i].text /\ n \in Range(MessagesOf(chat)[i].potential_token_names)

\* C19: a candidate the marketplace does not know, with confidence above 0.5
\* (four mentions or more), is announced exactly once: after a cycle of
\* check_external_tokens that crawled a mention of it there is one alert for
\* it, and there is never more than one.
C19_AlertedOnce ==
    \A n \in DOMAIN mentions_seen :
        /\ AlertsFor(n) <= 1
        /\ ( /\ last_call.op = "check_external_tokens"
             /\ mentions_seen[n] >= 4
             /\ \E chat \in Range(last_call.fetched) : Mentions(chat, n) )
           => AlertsFor(n) = 1

\* the channel of the worked example: 12 token mentions, 500 members, last
\* scanned 5 days ago, a description with five keywords or more, created 90
\* days ago
IsExampleChannel(channel, today) ==
    /\ channel.token_mentions_count = 12
    /\ channel.members_count = PyInt(500)
    /\ channel.last_scanned_at = Datetime(today - 5)
    /\ Truthy(channel.description)
    /\ KeywordMatches(channel.description.v) >= 5
    /\ channel.created_at = Datetime(today - 90)

\* C20: for the channel of the worked example update_channel_relevance stores
\* and returns 0.7345, to the third decimal.
C20_ExampleRelevance ==
    last_call.op = "update_channel_relevance" =>
        LET channel == channels[last_call.fetched[1]]
        IN  IsExampleChannel(channel, now) =>
                /\ last_call.returned.v >= 734500 - 500
                /\ last_call.returned.v <= 734500 + 500
                /\ channel.relevance_score = last_call.returned.v

-----------------------------------------------------------------------------
(* Claims on discovery, the candidates and the crawl pass *)

\* the step is a call of discover_new_channels, on its own or as the first
\* half of check_external_tokens
DiscoveryCalled ==
    /\ last_call'.op \in {"discover_new_channels", "check_external_tokens"}
    /\ calls' = calls + 1

BelowCap(table) == ActiveCount(table) < CHANNEL_DISCOVERY["max_monitored_channels"]

\* the never-scanned active channels a discovery run takes: the first
\* max_channels_per_run of them
ToSweep(table) ==
    FirstById(table, Unscanned(table), CHANNEL_DISCOVERY["max_channels_per_run"])

\* get_entity answers for the name whatever fails in the operation
AlwaysReachable(name) == \A down \in DownSets : Reachable(name, down)
AlwaysResolves(name) == \A down \in DownSets : Resolves(name, down)

\* the rows load_active_channels selects
Relevant(table) ==
    { n \in DOMAIN table :
        /\ table[n].is_active
        /\ table[n].relevance_score >= CHANNEL_DISCOVERY["min_relevance_score"] }

\* C23: with discovery enabled and fewer active channels than the cap, a call
\* of discover_new_channels searches every configured keyword, then joins the
\* never-scanned active channels of its sweep, then reloads the working set.
C23_RunsBothModes ==
    [][ DiscoveryCalled /\ CHANNEL_DISCOVERY["enabled"] /\ BelowCap(channels) =>
            /\ last_call'.searched = CHANNEL_SEARCH_KEYWORDS
            /\ \A c \in Range(ToSweep(channels)) : c \in Range(last_call'.joined)
            /\ Relevant(channels') # {} =>
                  active_channels' = ById(channels', Relevant(channels'))
      ]_vars

\* C24: in the sweep of a discovery run every never-scanned channel taken is
\* fetched when it can be reached, and every channel link in its messages that
\* resolves to a channel has a row afterwards; a channel registered this way
\* is not fetched in the same run.
C24_NestedLinksRegistered ==
    [][ last_call'.op = "discover_new_channels" /\ calls' = calls + 1 /\ BelowCap(channels) =>
            \A c \in Range(ToSweep(channels)) :
                AlwaysReachable(c) =>
                    /\ c \in Range(last_call'.fetched)
                    /\ \A link \in Range(MessageLinks(MessagesOf(c))) :
                          /\ AlwaysResolves(link) => link \in DOMAIN channels'
                          /\ link \notin DOMAIN channels =>
                                link \notin Range(last_call'.fetched)
      ]_vars

\* the alerts sent for a channel
ChannelAlertsFor(sent, c) == Cardinality({ i \in 1..Len(sent) : sent[i] = c })

\* the usernames the keyword search comes back with
SearchHits ==
    UNION { Range(SearchResults(CHANNEL_SEARCH_KEYWORDS[k])) :
              k \in 1..Len(CHANNEL_SEARCH_KEYWORDS) }

AgeBucket(channel, today) ==
    LET weight_age == RELEVANCE_FACTORS["age"]
        age == today - channel.created_at.day
    IN  IF channel.created_at = None THEN (5 * weight_age) \div 10
        ELSE IF age < 7 THEN (2 * weight_age) \div 10
        ELSE IF age <= 29 THEN (5 * weight_age) \div 10
        ELSE IF age <= 364 THEN (9 * weight_age) \div 10
        ELSE (7 * weight_age) \div 10

\* C26: the age component of the relevance score is 0.2, 0.5, 0.9 or 0.7 times
\* the weight of the age for an age below 7, of 7 to 29, of 30 to 364 and of
\* 365 days or more, and 0.5 times the weight when the creation date is
\* unknown: the score update_channel_relevance returns is the sum of the other
\* four components and that bucket.
C26_AgeBuckets ==
    [][ last_call'.op = "update_channel_relevance" /\ calls' = calls + 1 =>
            LET channel == channels'[last_call'.fetched[1]]
            IN  ~Truthy(channel.description) =>
                    last_call'.returned.v
                        = TokenMentionsScore(channel) + MembersScore(channel)
                            + ActivityScore(channel, now) + DescriptionScore(channel)
                            + AgeBucket(channel, now)
      ]_vars

\* the times a name was met in the messages processed
Seen(seen, n) == IF n \in DOMAIN seen THEN seen[n] ELSE 0

\* C27: every name extracted from the messages a step processed has a
\* candidate afterwards: a name that had one has its confidence raised by 0.1
\* for each mention, up to 1.0; a name that had none has one created at 0.3 by
\* its first mention and raised the same way by the others.
C27_EveryNameCounted ==
    [][ \A n \in DOMAIN mentions_seen' :
            LET k == Seen(mentions_seen', n) - Seen(mentions_seen, n)
            IN  k > 0 =>
                   /\ n \in DOMAIN potential_tokens'
                   /\ potential_tokens'[n].confidence_score
                         = IF n \in DOMAIN potential_tokens
                           THEN Min(Thousandths(1000),
                                    potential_tokens[n].confidence_score
                                        + k * Thousandths(100))
                           ELSE Min(Thousandths(1000),
                                    Thousandths(300) + (k - 1) * Thousandths(100))
      ]_vars

\* the candidate carries the reconciled flag
Reconciled(token) == "found_on_memepad" \in DOMAIN token /\ token.found_on_memepad

\* C28: a pass of check_external_tokens leaves every stored candidate the
\* marketplace lists with the reconciled flag set and confidence 0.9, and
\* every other stored candidate as it was.
C28_EveryCandidateReconciled ==
    [][ last_call'.op = "check_external_tokens" /\ calls' = calls + 1 =>
            \A n \in DOMAIN potential_tokens :
                /\ n \in DOMAIN potential_tokens'
                /\ IF n \in MemepadListed
                   THEN /\ Reconciled(potential_tokens'[n])
                        /\ potential_tokens'[n].confidence_score = Thousandths(900)
                   ELSE potential_tokens'[n] = potential_tokens[n]
      ]_vars

\* a message of the chat has a token name in it
HasNamed(chat) ==
    \E i \in 1..Len(MessagesOf(chat)) : NamesIn(MessagesOf(chat)[i]) # <<>>

\* the row of a channel after the scans of the chats fetched, one after
\* another: scanned today by the scan of its own username and, for each chat
\* of its entity with a token name in its messages, one mention more and the
\* relevance that goes with it
RECURSIVE ScannedInPass(_, _, _)
ScannedInPass(channel, fetched, today) ==
    IF Len(fetched) = 0 THEN channel
    ELSE LET chat == fetched[1]
             scanned == IF chat = channel.username
                        THEN [channel EXCEPT !.last_scanned_at = Datetime(today)]
                        ELSE channel
         IN  ScannedInPass(
                 IF EntityId(chat) = channel.channel_id /\ HasNamed(chat)
                 THEN update_channel_relevance(
                          [scanned EXCEPT !.token_mentions_count = @ + 1], today).channel
                 ELSE scanned,
                 Tail(fetched), today)

\* C29: in a pass of parse_external_chats every channel of the working set
\* that can be reached is fetched, whatever failed on the channels before it,
\* and every row holds what the scans of the pass committed to it (scanned
\* today, its mentions counted and rescored), whatever failed on the channels
\* after it; the row of a channel that was not fetched under any of its
\* usernames does not change.
C29_FailureIsolated ==
    [][ last_call'.op = "parse_external_chats" /\ calls' = calls + 1 =>
            /\ \A i \in 1..Len(active_channels) :
                  AlwaysReachable(active_channels[i]) =>
                      active_channels[i] \in Range(last_call'.fetched)
            /\ DOMAIN channels' = DOMAIN channels
            /\ \A c \in DOMAIN channels :
                  channels'[c] = ScannedInPass(channels[c], last_call'.fetched, now)
      ]_vars

\* a pass has gone on past a channel that failed: one channel of the working
\* set was not fetched or raised on a message, and a later one has been
\* fetched and has its row scanned
C29_Witness ==
    /\ last_call.op = "parse_external_chats"
    /\ \E i, j \in 1..Len(active_channels) :
          /\ i < j
          /\ \/ active_channels[i] \notin Range(last_call.fetched)
             \/ HasNamed(active_channels[i])
          /\ active_channels[j] \in Range(last_call.fetched)
          /\ active_channels[j] \in DOMAIN channels
          /\ channels[active_channels[j]].last_scanned_at # None
          /\ HasNamed(active_channels[j])

\* the text of the worked example and the identifier in it
ExampleLinkText == <<"j", "o", "i", "n", " ", "@", "c", "r", "y", "p", "t", "o", "t", "o", "n", "_", "n", "e", "w", "s", " ", "a", "n", "d", " ", "t", ".", "m", "e", "/", "c", "r", "y", "p", "t", "o", "t", "o", "n", "_", "n", "e", "w", "s">>
CryptotonNews == <<"c", "r", "y", "p", "t", "o", "t", "o", "n", "_", "n", "e", "w", "s">>

\* C22: _extract_channel_links returns each identifier once, however many
\* patterns matched it and however often it stands in the text; a second call
\* on the same text returns the same set; and on "join @cryptoton_news and
\* t.me/cryptoton_news" the set is {cryptoton_news}.
C22_LinksDeduplicated ==
    /\ \A i \in 1..Len(links_out) :
          /\ Len(links_out[i]) = Cardinality(Range(links_out[i]))
          /\ Range(links_out[i]) = Range(links_out[1])
          /\ links_in = ExampleLinkText => Range(links_out[i]) = {CryptotonNews}

\* the worked example has been run twice
C22_Witness ==
    /\ links_in = ExampleLinkText
    /\ Len(links_out) = 2

\* the steps the loop may take right after a step that returned
StepsAfter(step) ==
    CASE step = "scan_tokens" -> {"check_external_tokens"}
      [] step = "check_external_tokens" -> {"clean_old_channels", "channel_stats", "sleep"}
      [] step = "clean_old_channels" -> {"channel_stats", "sleep"}
      [] step = "discover_new_channels" -> {"parse_external_chats"}
      [] OTHER -> {"sleep"}

\* the loop has just taken a step of a cycle
StepTaken == Len(cycle_log') = Len(cycle_log) + 1

InFloodWait == coroutine.at = "flood_wait"

\* C30: at any moment at most one request of the spider is in flight, and it
\* is the one the coroutine awaits; while the spider sleeps on a rate-limit
\* signal none is in flight, and the steps taken before the wait ends issue no
\* request and write neither a channel row, nor the working set, nor a
\* candidate token.
C30_SequentialAndBlocked ==
    /\ [](/\ Cardinality(in_flight) <= 1
          /\ in_flight # {} =>
                coroutine.at \in {"search", "add_channel_to_db", "get_full_channel",
                                  "get_entity", "get_messages"}
          /\ InFloodWait => in_flight = {})
    /\ [][ InFloodWait /\ InFloodWait' =>
              UNCHANGED <<in_flight, channels, active_channels, potential_tokens,
                          coroutine>>
         ]_vars

\* the sweep sleeps on a rate-limit signal after it registered a channel, with
\* keywords still to search for, and the bot's task is running meanwhile
C30_Witness ==
    /\ InFloodWait
    /\ polling = "handling"
    /\ Len(coroutine.queue) > 1
    /\ \E n \in DOMAIN channels : channels[n].source = "keyword_search"

-----------------------------------------------------------------------------
(* Claims on what the operations keep over time *)

DiscoveryRuns ==
    { i \in 1..Len(cycle_log) : cycle_log[i].step = "check_external_tokens" }

KnownNames == DOMAIN AgedTable \cup Range(MONITORED_CHANNELS)

\* the channel is active, was never scanned, and would answer a join and a
\* message fetch
AwaitsSweep(c) ==
    /\ c \in DOMAIN channels
    /\ channels[c].is_active
    /\ channels[c].last_scanned_at = None
    /\ AlwaysReachable(c)

ScoreRaises(channel) ==
    Truthy(channel.description) /\ ~HasKey(RELEVANCE_FACTORS, "description")

\* C36: a call of update_channel_relevance that fails while it computes the
\* score leaves every field of the channel as it was and returns the stored
\* score; a call that does not fail changes the score alone, to the sum of the
\* five components, and returns it; no other row changes.
C36_FailureKeepsScore ==
    [][ last_call'.op = "update_channel_relevance" /\ calls' = calls + 1 =>
            LET n == last_call'.fetched[1]
            IN  /\ DOMAIN channels' = DOMAIN channels
                /\ \A c \in DOMAIN channels \ {n} : channels'[c] = channels[c]
                /\ last_call'.returned.v = channels'[n].relevance_score
                /\ IF ScoreRaises(channels[n])
                   THEN channels'[n] = channels[n]
                   ELSE channels'[n] =
                          [channels[n] EXCEPT !.relevance_score =
                              TokenMentionsScore(channels[n]) + MembersScore(channels[n])
                                + ActivityScore(channels[n], now)
                                + DescriptionScore(channels[n]) + AgeScore(channels[n], now)]
      ]_vars

\* update_channel_relevance has failed on a channel with a description whose
\* stored score is not the sum of its components, and the score stands
C36_Witness ==
    /\ last_call.op = "update_channel_relevance"
    /\ LET channel == channels[last_call.fetched[1]]
       IN  /\ ScoreRaises(channel)
           /\ last_call.returned.v = channel.relevance_score
           /\ channel.relevance_score = Thousandths(500)
           /\ channel.last_scanned_at # None

InRetiredState(channel) ==
    /\ ~channel.is_active
    /\ channel.relevance_score < Thousandths(300)
    /\ channel.last_scanned_at # None
    /\ now - channel.last_scanned_at.day > 30

CreatedRowsStayActive ==
    \A n \in DOMAIN channels :
        channels[n].relevance_score >= Thousandths(500) /\ channels[n].is_active

\* a row created and scanned in this run has met a cleanup pass more than 30
\* days after its last scan
CleanupMetAgedRow ==
    /\ last_call.op = "clean_old_channels"
    /\ \E n \in DOMAIN channels :
          /\ channels[n].last_scanned_at # None
          /\ now - channels[n].last_scanned_at.day > 30

\* the scan of the chat, started on the rows and candidates as they are, ends
\* in the handler of parse_external_chats: a message of it raises
ScanRaises(chat) ==
    ProcessMessages(Scanned(channels, chat, now), potential_tokens, potential_tokens,
                    MessagesOf(chat), chat, now, <<>>, <<>>).raised

\* C39: after a pass of parse_external_chats the row of every channel whose
\* scan failed has the last-scan time, the mention count and the relevance it
\* had before the pass, and every candidate the pass added is named in a
\* message of a channel whose scan did not fail.
C39_ScanAtomic ==
    [][ last_call'.op = "parse_external_chats" /\ calls' = calls + 1 =>
            /\ \A chat \in Range(last_call'.fetched) \cap DOMAIN channels :
                  ScanRaises(chat) =>
                      /\ channels'[chat].last_scanned_at = channels[chat].last_scanned_at
                      /\ channels'[chat].token_mentions_count
                            = channels[chat].token_mentions_count
                      /\ channels'[chat].relevance_score = channels[chat].relevance_score
            /\ \A t \in DOMAIN potential_tokens' \ DOMAIN potential_tokens :
                  \E chat \in Range(last_call'.fetched) :
                      /\ ~ScanRaises(chat)
                      /\ \E i \in 1..Len(MessagesOf(chat)) : t \in Range(NamesIn(MessagesOf(chat)[i]))
      ]_vars

=============================================================================
